---- MODULE Spec2Model ----
(***************************************************************************)
(* A model of vst_window: the per-platform window backends (Win32, AppKit, *)
(* X11), their event capture, the delivery channel, the facade that        *)
(* composes them, and the example editor that drives them.                 *)
(*                                                                         *)
(* One behaviour is one build of the crate: Init picks the backend that    *)
(* cfg(target_os) selects and the composition of window and event source   *)
(* that the build uses (the facade's tuple struct of platform/mod.rs, or   *)
(* the platform module's own EditorWindowImpl).  Every window slot is one  *)
(* MyPluginEditor with its own host thread: the steps of different slots   *)
(* interleave, the steps of one slot run in program order.  Spec is the    *)
(* example editor (it always asks for WINDOW_DIMENSIONS); ApiSpec is one   *)
(* window in the hands of a caller that passes setup any size and parent;  *)
(* X11Spec is that caller on the X11 backend alone, with the display       *)
(* server's answers to every build; Win32Spec and CocoaSpec are the same   *)
(* caller on the Win32 and on the AppKit backend alone; PairSpec is a      *)
(* caller with two windows of different sizes open side by side.           *)
(***************************************************************************)
EXTENDS Integers, Sequences, FiniteSets, TLC

\* ------------------------------------------------------------- bounds
NumWindows == 2
MaxSetups == 2
MaxNotes == 2

Windows == 1..NumWindows

\* ------------------------------------------------- program constants
Backends == {"Win32", "AppKit", "X11"}
Compositions == {"facade", "os"}
WINDOW_DIMENSIONS == <<300, 200>>
Sizes == {WINDOW_DIMENSIONS}
Parents == {"valid", "null"}
None == "None"

\* What a direct caller of setup may pass: any (i32, i32) as the size (a small
\* one, a negative width, widths beyond 32767 and beyond 65535), and as the
\* parent also a pointer that is not null and denotes no surface.
AnySizes == {WINDOW_DIMENSIONS, <<4, 2>>, <<-1, 200>>, <<40000, 200>>, <<70000, 200>>}
AnyParents == {"valid", "null", "stale"}

\* ------------------------------------------------------------ errors
\* lib.rs: const CURRENT_BACKEND, one definition per cfg(target_os).
CURRENT_BACKEND(b) ==
    CASE b = "X11" -> "X11"
      [] b = "AppKit" -> "X11"
      [] b = "Win32" -> "X11"

\* The error sources: a tuple struct is its kind and its fields in order,
\* every field a sequence; any other source is its message.
\* cause is what the error's source() gives: <<>> for None, <<e>> for Some(e).
InvalidSizeError(size) == [kind |-> "InvalidSizeError", fields |-> <<size>>, cause |-> <<>>]
InvalidParentError(parent) ==
    [kind |-> "InvalidParentError", fields |-> <<<<parent>>>>, cause |-> <<>>]
Message(text) == [kind |-> "message", fields |-> <<<<text>>>>, cause |-> <<>>]

\* An error of the X11 library (ConnectError, ConnectionError, ReplyError): it
\* may hold the error that caused it.
LibraryError(name, cause) == [kind |-> name, fields |-> <<>>, cause |-> cause]

NoError == [type |-> "none", source |-> Message(""), backend |-> "-", context |-> <<>>]

\* SetupError::new, SetupError::new_boxed.
SetupError_new(b, source) ==
    [type |-> "SetupError", source |-> source, backend |-> CURRENT_BACKEND(b),
     context |-> <<>>]

\* SetupError::with_context, SetupError::with_context_boxed.
SetupError_with_context(b, source, context) ==
    [type |-> "SetupError", source |-> source, backend |-> CURRENT_BACKEND(b),
     context |-> <<context>>]

\* crate::Error::Other { source, backend }, as windows/window.rs and the macOS
\* builds make it, with the backend they name.
Error_Other(source, named) ==
    [type |-> "Error::Other", source |-> source, backend |-> named, context |-> <<>>]

\* Error::source: a SetupError (and an Error::Other) gives Some(its source);
\* InvalidSizeError, InvalidParentError and a boxed message give None; a
\* library error gives what it holds.
Error_source(e) == IF "cause" \in DOMAIN e THEN e.cause ELSE <<e.source>>

\* Display: what "{}" writes for an error, the text and what is formatted
\* into it.
Display(e) ==
    IF "cause" \in DOMAIN e THEN [text |-> e.kind, args |-> e.fields]
    ELSE IF e.context # <<>> THEN [text |-> e.context[1], args |-> <<<<e.backend>>>>]
    ELSE [text |-> "platform error", args |-> <<<<e.backend>>>>]

\* The loop of ErrorChainPrinter: maybe_error is written and replaced by its
\* source until it is None.
RECURSIVE PrintCauses(_)
PrintCauses(maybe_error) ==
    IF maybe_error = <<>> THEN <<>>
    ELSE <<Display(maybe_error[1])>> \o PrintCauses(Error_source(maybe_error[1]))

\* A printer with `if let` for `while let`: the error and its source only.
ErrorChainPrinter_one_cause(e) ==
    <<Display(e)>> \o (IF Error_source(e) = <<>> THEN <<>> ELSE <<Display(Error_source(e)[1])>>)

\* Display for ErrorChainPrinter: the pieces written, in order (": " between).
ErrorChainPrinter(e) == <<Display(e)>> \o PrintCauses(Error_source(e))

\* --------------------------------------------------------- events
CursorMovement(x, y) == <<"CursorMovement", x, y>>
MouseClick(b) == <<"MouseClick", b>>
MouseRelease(b) == <<"MouseRelease", b>>
MouseButton == {"Left", "Right", "Middle"}

RECURSIVE GCD(_, _)
GCD(a, b) == IF b = 0 THEN a ELSE GCD(b, a % b)

Abs(n) == IF n < 0 THEN -n ELSE n

\* offset / size as an exact fraction in lowest terms: <<numerator, denominator>>
\* with a positive denominator (the sizes are never 0).
Frac(n, d) ==
    LET g == GCD(Abs(n), Abs(d)) IN
    IF d < 0 THEN <<(-n) \div g, (-d) \div g>> ELSE <<n \div g, d \div g>>

\* ------------------------------------------------ native notifications
\* A native notification, as the display system reports it: a pointer move to
\* an offset from the window's top-left corner, a press or release of a
\* physical button, or anything else (a key, an expose, a paint).
Positions == {<<0, 0>>}
PhysicalButtons == {"Left", "X1"}
AnyPositions == {<<0, 0>>, <<300, 200>>, <<75, 150>>, <<-30, 250>>}
AnyButtons == {"Left", "Right", "Middle", "X1"}
Move(p) == [kind |-> "move", button |-> "-", pos |-> p]
Press(b, p) == [kind |-> "press", button |-> b, pos |-> p]
Release(b, p) == [kind |-> "release", button |-> b, pos |-> p]
Other == [kind |-> "other", button |-> "-", pos |-> <<0, 0>>]
\* A pointer move with the left button held, which AppKit reports on its own.
Drag(p) == [kind |-> "drag", button |-> "Left", pos |-> p]
Notes ==
    {Move(p) : p \in Positions}
        \cup {Press(b, p) : b \in PhysicalButtons, p \in Positions}
        \cup {Release(b, p) : b \in PhysicalButtons, p \in Positions}
        \cup {Other}

\* What the display system may report to a window: a move to any position, a
\* press or release of any button.
AnyNotes ==
    {Move(p) : p \in AnyPositions}
        \cup {Press(b, p) : b \in AnyButtons, p \in Positions}
        \cup {Release(b, p) : b \in AnyButtons, p \in Positions}
        \cup {Other}


\* ------------------------------------------------ translation (pure)
\* Win32: the message a notification arrives as (event_source.rs, match umsg).
Umsg(note) ==
    CASE note.kind = "move" -> "WM_MOUSEMOVE"
      [] note.kind = "press" /\ note.button = "Left" -> "WM_LBUTTONDOWN"
      [] note.kind = "release" /\ note.button = "Left" -> "WM_LBUTTONUP"
      [] note.kind = "press" /\ note.button = "Right" -> "WM_RBUTTONDOWN"
      [] note.kind = "release" /\ note.button = "Right" -> "WM_RBUTTONUP"
      [] note.kind = "press" /\ note.button = "Middle" -> "WM_MBUTTONDOWN"
      [] note.kind = "release" /\ note.button = "Middle" -> "WM_MBUTTONUP"
      [] note.kind = "press" -> "WM_XBUTTONDOWN"
      [] note.kind = "release" -> "WM_XBUTTONUP"
      [] OTHER -> "WM_PAINT"

\* The lparam of a mouse message: the x offset in the low word, the y offset
\* in the high word, 16 bits each, two's complement.
MAKELPARAM(pos) == (pos[1] % 65536) + 65536 * (pos[2] % 65536)

i16(n) == IF n >= 32768 THEN n - 65536 ELSE n

\* The low word taken for an unsigned number, as LOWORD does.
GET_X_LPARAM_unsigned(lparam) == lparam % 65536

\* windowsx GET_X_LPARAM, GET_Y_LPARAM: the word, sign-extended to an int.
GET_X_LPARAM(lparam) == i16(lparam % 65536)

GET_Y_LPARAM(lparam) == i16((lparam \div 65536) % 65536)

\* The events one wnd_proc invocation sends, in order.
WndProcEvents(note, size) ==
    LET umsg == Umsg(note)
        lparam == MAKELPARAM(note.pos) IN
    CASE umsg = "WM_MOUSEMOVE" ->
            <<CursorMovement(Frac(GET_X_LPARAM(lparam), size[1]),
                             Frac(GET_Y_LPARAM(lparam), size[2]))>>
      [] umsg = "WM_LBUTTONDOWN" -> <<MouseClick("Left")>>
      [] umsg = "WM_LBUTTONUP" -> <<MouseRelease("Left")>>
      [] umsg = "WM_RBUTTONDOWN" -> <<MouseClick("Right")>>
      [] umsg = "WM_RBUTTONUP" -> <<MouseRelease("Right")>>
      [] umsg = "WM_MBUTTONDOWN" -> <<MouseClick("Middle")>>
      [] umsg = "WM_MBUTTONUP" -> <<MouseRelease("Middle")>>
      [] OTHER -> <<>>

\* A wnd_proc that answers the messages it handles itself and hands only the
\* others to DefWindowProcW.
DefWindowProcW_calls_unhandled_only(umsg, is_null) ==
    IF is_null THEN 1
    ELSE IF umsg \in {"WM_MOUSEMOVE", "WM_LBUTTONDOWN", "WM_LBUTTONUP", "WM_RBUTTONDOWN",
                      "WM_RBUTTONUP", "WM_MBUTTONDOWN", "WM_MBUTTONUP"}
    THEN 0 ELSE 1

\* The calls of DefWindowProcW one wnd_proc invocation makes: the early return
\* with a null pointer, or no call in any arm of the match and the call that
\* follows the match.
DefWindowProcW_calls(umsg, is_null) ==
    IF is_null THEN 1 ELSE 0 + 1

\* The pointer capture one wnd_proc invocation leaves behind: SetCapture(hwnd)
\* on a button-down arm, ReleaseCapture() on a button-up arm.
WndProcCapture(note, w, held) ==
    LET umsg == Umsg(note) IN
    CASE umsg \in {"WM_LBUTTONDOWN", "WM_RBUTTONDOWN", "WM_MBUTTONDOWN"} -> w
      [] umsg \in {"WM_LBUTTONUP", "WM_RBUTTONUP", "WM_MBUTTONUP"} -> 0
      [] OTHER -> held

\* X11: the detail byte of a core button event.
Detail(button) ==
    CASE button = "Left" -> 1
      [] button = "Middle" -> 2
      [] button = "Right" -> 3
      [] button = "WheelUp" -> 4
      [] button = "Any" -> 0
      [] OTHER -> 8

\* A mapping with the details of the middle and the right button exchanged.
convert_mouse_button_detail_swapped(detail) ==
    CASE detail = 1 -> "Left"
      [] detail = 2 -> "Right"
      [] detail = 3 -> "Middle"
      [] OTHER -> None

convert_mouse_button_detail(detail) ==
    CASE detail = 1 -> "Left"
      [] detail = 2 -> "Middle"
      [] detail = 3 -> "Right"
      [] OTHER -> None

\* The translation with the width as the divisor of both coordinates.
X11Events_width_only(note, size) ==
    CASE note.kind = "move" ->
            <<CursorMovement(Frac(note.pos[1], size[1]), Frac(note.pos[2], size[1]))>>
      [] note.kind = "press" ->
            LET b == convert_mouse_button_detail(Detail(note.button)) IN
            IF b = None THEN <<>> ELSE <<MouseClick(b)>>
      [] note.kind = "release" ->
            LET b == convert_mouse_button_detail(Detail(note.button)) IN
            IF b = None THEN <<>> ELSE <<MouseRelease(b)>>
      [] OTHER -> <<>>

\* The event one X11 notification translates to, as a sequence of 0 or 1.
X11Events(note, size) ==
    CASE note.kind = "move" ->
            <<CursorMovement(Frac(note.pos[1], size[1]), Frac(note.pos[2], size[2]))>>
      [] note.kind = "press" ->
            LET b == convert_mouse_button_detail(Detail(note.button)) IN
            IF b = None THEN <<>> ELSE <<MouseClick(b)>>
      [] note.kind = "release" ->
            LET b == convert_mouse_button_detail(Detail(note.button)) IN
            IF b = None THEN <<>> ELSE <<MouseRelease(b)>>
      [] OTHER -> <<>>

\* AppKit: the NSView method a notification arrives at.  Every button that is
\* neither the left nor the right one arrives at otherMouseDown:/otherMouseUp:.
Selector(note) ==
    CASE note.kind = "move" -> "mouseMoved:"
      [] note.kind = "drag" -> "mouseDragged:"
      [] note.kind = "press" /\ note.button = "Left" -> "mouseDown:"
      [] note.kind = "release" /\ note.button = "Left" -> "mouseUp:"
      [] note.kind = "press" /\ note.button = "Right" -> "rightMouseDown:"
      [] note.kind = "release" /\ note.button = "Right" -> "rightMouseUp:"
      [] note.kind = "press" -> "otherMouseDown:"
      [] note.kind = "release" -> "otherMouseUp:"
      [] OTHER -> "drawRect:"

\* The location AppKit reports, in the view's coordinates: origin bottom-left.
CocoaLocation(pos, size) == <<pos[1], size[2] - pos[2]>>

\* 1. - (location.y / size_xy.1)
OneMinus(f) == Frac(f[2] - f[1], f[2])

\* A cursor movement that takes AppKit's y for an offset from the top edge.
send_cursor_movement_unflipped(note, size) ==
    LET location == CocoaLocation(note.pos, size) IN
    CursorMovement(Frac(location[1], size[1]), Frac(location[2], size[2]))

send_cursor_movement(note, size) ==
    LET location == CocoaLocation(note.pos, size) IN
    CursorMovement(Frac(location[1], size[1]), OneMinus(Frac(location[2], size[2])))

\* Callbacks that send the click or release first and the movement after it.
CocoaEvents_click_first(note, size) ==
    LET sel == Selector(note) IN
    CASE sel = "mouseMoved:" -> <<send_cursor_movement(note, size)>>
      [] sel = "mouseDragged:" -> <<send_cursor_movement(note, size)>>
      [] sel = "mouseDown:" -> <<MouseClick("Left"), send_cursor_movement(note, size)>>
      [] sel = "mouseUp:" -> <<MouseRelease("Left"), send_cursor_movement(note, size)>>
      [] sel = "rightMouseDown:" -> <<MouseClick("Right"), send_cursor_movement(note, size)>>
      [] sel = "rightMouseUp:" -> <<MouseRelease("Right"), send_cursor_movement(note, size)>>
      [] sel = "otherMouseDown:" -> <<MouseClick("Middle"), send_cursor_movement(note, size)>>
      [] sel = "otherMouseUp:" -> <<MouseRelease("Middle"), send_cursor_movement(note, size)>>
      [] OTHER -> <<>>

\* The events one AppKit callback sends, in order.
CocoaEvents(note, size) ==
    LET sel == Selector(note) IN
    CASE sel = "mouseMoved:" -> <<send_cursor_movement(note, size)>>
      [] sel = "mouseDragged:" -> <<send_cursor_movement(note, size)>>
      [] sel = "mouseDown:" -> <<send_cursor_movement(note, size), MouseClick("Left")>>
      [] sel = "mouseUp:" -> <<send_cursor_movement(note, size), MouseRelease("Left")>>
      [] sel = "rightMouseDown:" -> <<send_cursor_movement(note, size), MouseClick("Right")>>
      [] sel = "rightMouseUp:" -> <<send_cursor_movement(note, size), MouseRelease("Right")>>
      [] sel = "otherMouseDown:" -> <<send_cursor_movement(note, size), MouseClick("Middle")>>
      [] sel = "otherMouseUp:" -> <<send_cursor_movement(note, size), MouseRelease("Middle")>>
      [] OTHER -> <<>>

\* What the backend b makes of one notification.
Translate(b, note, size) ==
    CASE b = "Win32" -> WndProcEvents(note, size)
      [] b = "AppKit" -> CocoaEvents(note, size)
      [] OTHER -> X11Events(note, size)

RECURSIVE TranslateAll(_, _, _)
TranslateAll(b, notes, size) ==
    IF notes = <<>> THEN <<>>
    ELSE Translate(b, Head(notes), size) \o TranslateAll(b, Tail(notes), size)


\* ------------------------------------------------------------ state
VARIABLES
    backend,      \* the platform module cfg(target_os) selects as `os`
    composition,  \* "facade": EditorWindow(EditorWindowImpl, EventSourceImpl);
                  \* "os": the platform module's EditorWindowImpl
    phase,        \* per slot: "none" (MyPluginEditor.window is None), "built"
                  \* (inside setup, window built), "live" (window is Some),
                  \* "dropping" (inside drop), "unwinding" (inside a failed setup)
    todo,         \* per slot: the drop steps still to run, in order
    setups,       \* calls of setup so far
    notified,     \* notifications the display system delivered so far
    size_xy,      \* per slot: the size the capture state stores
    native,       \* per slot: the native child window exists (HWND / X11 window)
    backref,      \* per slot: GWLP_USERDATA / EVENT_DELEGATE_IVAR: "null" or "ptr"
    sender,       \* per slot: the boxed Sender / EventDelegate: "none", "alive", "freed"
    receiver,     \* per slot: the Receiver exists
    queue,        \* per slot: the channel's buffered events
    wndproc,      \* per slot: the notification a running wnd_proc holds: <<>> or <<note>>
    capture,      \* the slot whose window has the pointer capture, or 0
    class,        \* WINDOW_CLASS: [strong: Arc count, registered: the OS has the class]
    holdsClass,   \* per slot: the slot holds an Arc<VstWindowClass>
    registrations,\* successful RegisterClassExW calls so far
    unregistrations, \* successful UnregisterClassW calls so far
    subview,      \* per slot: retain count of the event subview (0: deallocated)
    hostRetain,   \* per slot: retains the slot holds on the host's [view, window]
    conn,         \* per slot: strong count of the Arc<XCBConnection> (0: closed)
    nbuf,         \* per slot: notifications buffered on the X11 connection
    occurred,     \* history, per slot: notifications the live window was sent
    got,          \* history, per slot: events poll_event returned
    last,         \* history: the last call and its result
    fault         \* None, or the fault that aborted the process

vars ==
    <<backend, composition, phase, todo, setups, notified, size_xy, native, backref, sender,
      receiver, queue, wndproc, capture, class, holdsClass, registrations,
      unregistrations, subview, hostRetain, conn, nbuf, occurred, got, last, fault>>

buildVars == <<backend, composition>>
channelVars == <<sender, receiver, queue>>
classVars == <<class, holdsClass, registrations, unregistrations>>
win32Vars == <<wndproc, capture>>
cocoaVars == <<subview, hostRetain>>
x11Vars == <<conn, nbuf>>
historyVars == <<occurred, got>>

\* A call and its result; ev holds the event a poll_event returned, if any.
\* opened: the call connected to the display server.  forwarded: the calls
\* of DefWindowProcW a wnd_proc invocation has made.
Call(op, w, res) ==
    [op |-> op, w |-> w, res |-> res, ev |-> <<>>, err |-> NoError, opened |-> FALSE,
     forwarded |-> 0]

\* A setup that returns Err(e).
Failed(w, res, e) ==
    [op |-> "setup", w |-> w, res |-> res, ev |-> <<>>, err |-> e, opened |-> FALSE,
     forwarded |-> 0]

Polled(w, evs) ==
    [op |-> "poll_event", w |-> w, res |-> IF evs = <<>> THEN "None" ELSE "Some", ev |-> evs,
     err |-> NoError, opened |-> FALSE, forwarded |-> 0]

Init ==
    /\ backend \in Backends
    /\ composition \in Compositions
    /\ phase = [w \in Windows |-> "none"]
    /\ todo = [w \in Windows |-> <<>>]
    /\ setups = 0
    /\ notified = 0
    /\ size_xy = [w \in Windows |-> WINDOW_DIMENSIONS]
    /\ native = [w \in Windows |-> FALSE]
    /\ backref = [w \in Windows |-> "null"]
    /\ sender = [w \in Windows |-> "none"]
    /\ receiver = [w \in Windows |-> FALSE]
    /\ queue = [w \in Windows |-> <<>>]
    /\ wndproc = [w \in Windows |-> <<>>]
    /\ capture = 0
    /\ class = [strong |-> 0, registered |-> FALSE]
    /\ holdsClass = [w \in Windows |-> FALSE]
    /\ registrations = 0
    /\ unregistrations = 0
    /\ subview = [w \in Windows |-> 0]
    /\ hostRetain = [w \in Windows |-> [view |-> 0, window |-> 0]]
    /\ conn = [w \in Windows |-> 0]
    /\ nbuf = [w \in Windows |-> <<>>]
    /\ occurred = [w \in Windows |-> <<>>]
    /\ got = [w \in Windows |-> <<>>]
    /\ last = Call("new", 0, None)
    /\ fault = None

\* ------------------------------------------------------ drop order
\* Rust runs a value's Drop::drop, then drops its fields in declaration order.

\* A window that lets go of its class before it destroys the native window.
DropWindowImpl_class_first(b) ==
    CASE b = "Win32" -> <<"class_release", "UnregisterClassW", "DestroyWindow">>
      [] b = "X11" -> <<"destroy_window", "conn_release">>
      [] OTHER -> <<"release_ns_window", "release_ns_view">>

\* A window whose drop releases the host's window and forgets the view.
DropWindowImpl_keeps_view(b) ==
    CASE b = "Win32" -> <<"DestroyWindow", "class_release", "UnregisterClassW">>
      [] b = "X11" -> <<"destroy_window", "conn_release">>
      [] OTHER -> <<"release_ns_window">>

\* windows/window.rs: Drop::drop destroys the window, then the field _class
\* (an Arc) is dropped: the count goes down and the last holder drops the
\* VstWindowClass.  unix/window.rs: Drop::drop sends destroy_window, then the
\* field connection (an Arc) is dropped.  macos/window.rs: Drop::drop releases
\* the host's window and view.
DropWindowImpl(b) ==
    CASE b = "Win32" -> <<"DestroyWindow", "class_release", "UnregisterClassW">>
      [] b = "X11" -> <<"destroy_window", "conn_release">>
      [] OTHER -> <<"release_ns_window", "release_ns_view">>

\* An event source that frees the boxed sender and clears the user data
\* afterwards.
DropEventSource_free_first(b) ==
    CASE b = "Win32" -> <<"free_sender", "clear_userdata", "drop_receiver">>
      [] b = "X11" -> <<"conn_release">>
      [] OTHER -> <<"release_subview", "drop_receiver">>

\* windows/event_source.rs: Drop::drop clears GWLP_USERDATA and frees the boxed
\* sender, then the field incoming_window_events is dropped.
\* unix/event_source.rs: no Drop; the field connection (an Arc) is dropped.
\* macos/event_source.rs: Drop::drop releases the subview, then the field
\* incoming_events is dropped.
DropEventSource(b) ==
    CASE b = "Win32" -> <<"clear_userdata", "free_sender", "drop_receiver">>
      [] b = "X11" -> <<"conn_release">>
      [] OTHER -> <<"release_subview", "drop_receiver">>

\* platform/mod.rs: pub struct EditorWindow(EditorWindowImpl, EventSourceImpl).
DropFacade(b) == DropWindowImpl(b) \o DropEventSource(b)

\* windows/mod.rs, unix/mod.rs: struct EditorWindowImpl { event_source, window }.
\* macos/mod.rs: struct EditorWindowImpl { event_proxy, incoming_events, ns_window }.
DropOs(b) ==
    IF b = "AppKit"
    THEN <<"release_subview", "drop_receiver", "release_ns_window">>
    ELSE DropEventSource(b) \o DropWindowImpl(b)

DropOrder(c, b) == IF c = "facade" THEN DropFacade(b) ELSE DropOs(b)


\* ------------------------------------------------- shared window class
\* VstWindowClass::create: RegisterClassExW fails (atom 0) while a class of
\* that name is registered.
VstWindowClass_create(c) ==
    IF c.registered
    THEN [ok |-> FALSE, class |-> c, created |-> 0]
    ELSE [ok |-> TRUE, class |-> [strong |-> 1, registered |-> TRUE], created |-> 1]

\* A lookup that hands out the class without counting the new holder.
get_window_class_uncounted(c) ==
    IF c.strong > 0
    THEN [ok |-> TRUE, class |-> c, created |-> 0]
    ELSE VstWindowClass_create(c)

\* get_window_class, under the WINDOW_CLASS mutex from its first line to its
\* last: upgrade the Weak, and create the class when no Arc is left.
get_window_class(c) ==
    IF c.strong > 0
    THEN [ok |-> TRUE, class |-> [c EXCEPT !.strong = @ + 1], created |-> 0]
    ELSE VstWindowClass_create(c)

\* ------------------------------------------------------------ setup
Running == fault = None

u16(n) == n \in 0..65535

\* setup / MyPluginEditor::open with no window yet, up to the built window.
\* Every build notes the size_xy argument of the call; the event source made
\* for the built window is given the same argument.
\* Win32 (ChildWindow::build): the class, then CreateWindowExW with the size as
\* given (it is not validated; the system does not refuse an extent, it takes
\* a negative one for none), which fails without a parent to be a child of
\* and, with ERROR_INVALID_WINDOW_HANDLE, for a parent that is no window.
Win32Build(w, parent, sz) ==
    /\ Running /\ backend = "Win32"
    /\ phase[w] = "none" /\ setups < MaxSetups
    /\ setups' = setups + 1
    /\ size_xy' = [size_xy EXCEPT ![w] = sz]
    /\ LET r == get_window_class(class) IN
       /\ class' = r.class
       /\ registrations' = registrations + r.created
       /\ IF ~r.ok
          THEN /\ last' = Failed(w, "Err:RegisterClassExW",
                                 Error_Other(Message("RegisterClassExW"), "WinApi"))
               /\ UNCHANGED <<phase, todo, native, holdsClass>>
          ELSE /\ holdsClass' = [holdsClass EXCEPT ![w] = TRUE]
               /\ IF parent = "valid"
                  THEN /\ native' = [native EXCEPT ![w] = TRUE]
                       /\ phase' = [phase EXCEPT ![w] = "built"]
                       /\ last' = Call("build", w, "Ok")
                       /\ UNCHANGED todo
                  ELSE /\ phase' = [phase EXCEPT ![w] = "unwinding"]
                       /\ todo' = [todo EXCEPT ![w] = <<"class_release", "UnregisterClassW">>]
                       /\ last' = Failed(w, "Err:CreateWindowExW",
                                         Error_Other(Message(IF parent = "stale"
                                                             THEN "invalid parent hwnd supplied"
                                                             ELSE "CreateWindowExW"), "WinApi"))
                       /\ UNCHANGED native
    /\ UNCHANGED <<buildVars, notified, backref, channelVars, win32Vars, unregistrations,
                   cocoaVars, x11Vars, historyVars, fault>>

\* (parent as usize).try_into() to u32: the valid parent is the XID of a
\* window and null is 0; the stale parent is a pointer above 4 GiB, which is
\* no XID.
parent_id(parent) == IF parent = "stale" THEN <<>> ELSE <<parent>>

\* The notifications the connection holds once sync has returned: an error
\* names its kind and the low 16 bits of the failed request's sequence number.
ErrorEvent(kind, sequence) ==
    [response |-> "Error", error_kind |-> kind, sequence |-> sequence % 65536]

OtherEvent == [response |-> "PropertyNotify", error_kind |-> "-", sequence |-> 0]

\* What the display server may do during one build, for a parent: refuse the
\* connection; fail the atoms' reply; or answer every round trip and leave,
\* by the time sync returns, the errors of the requests it refused, in the
\* requests' order.  create_window with a parent that is no window gets a
\* Window error, and so do the later requests on the window that was not made.
ConnectCauses == {<<>>, <<Message("Connection refused")>>}

CreateSeqs == {1, 2}

ServerEvents(parent, seq) ==
    IF parent = "valid"
    THEN {<<>>, <<OtherEvent>>, <<ErrorEvent("Alloc", seq)>>,
          <<OtherEvent, ErrorEvent("Window", seq + 5)>>,
          <<ErrorEvent("Match", seq), ErrorEvent("Window", seq + 3)>>}
    ELSE {<<ErrorEvent("Window", seq), ErrorEvent("Window", seq + 3)>>,
          <<OtherEvent, ErrorEvent("Window", seq)>>}

X11Servers ==
    [parent \in AnyParents |->
    {[connect |-> <<LibraryError("ConnectError", c)>>, create_window_seq |-> 1,
      reply |-> "Ok", events |-> <<>>] : c \in ConnectCauses}
    \cup {[connect |-> <<>>, create_window_seq |-> 1, reply |-> r, events |-> <<>>] :
            r \in {"ConnectionError", "X11Error"}}
    \cup UNION {{[connect |-> <<>>, create_window_seq |-> seq, reply |-> "Ok", events |-> e] :
                    e \in ServerEvents(parent, seq)} : seq \in CreateSeqs}]

\* while let Some(event) = connection.poll_for_event()?: the first Error among
\* the notifications, <<>> when there is none; the others are dropped.
RECURSIVE FirstError(_)
FirstError(events) ==
    IF events = <<>> THEN <<>>
    ELSE IF Head(events).response = "Error" THEN <<Head(events)>>
    ELSE FirstError(Tail(events))

\* A build that takes every Window error for the parent's, whatever request
\* it answers.
X11BuildOutcome_any_window_error(b, parent, sz, server) ==
    IF ~(u16(sz[1]) /\ u16(sz[2]))
    THEN [res |-> "Err:InvalidSize", err |-> SetupError_new(b, InvalidSizeError(sz)),
          opened |-> FALSE]
    ELSE IF server.connect # <<>>
    THEN [res |-> "Err:Connect",
          err |-> SetupError_with_context(b, server.connect[1],
                                          "couldn't connect to display server"),
          opened |-> FALSE]
    ELSE IF parent_id(parent) = <<>>
    THEN [res |-> "Err:InvalidParent", err |-> SetupError_new(b, InvalidParentError(parent)),
          opened |-> TRUE]
    ELSE IF server.reply = "ConnectionError"
    THEN [res |-> "Err:Connection",
          err |-> SetupError_with_context(b, LibraryError("ConnectionError", <<>>),
                                          "display server connection error"),
          opened |-> TRUE]
    ELSE IF server.reply # "Ok"
    THEN [res |-> "Err:Reply",
          err |-> SetupError_with_context(b, LibraryError("ReplyError", <<>>),
                                          "failed to intern strings"),
          opened |-> TRUE]
    ELSE LET error == FirstError(server.events) IN
         IF error = <<>> THEN [res |-> "Ok", err |-> NoError, opened |-> TRUE]
         ELSE IF error[1].error_kind = "Window"
         THEN [res |-> "Err:InvalidParent",
               err |-> SetupError_new(b, InvalidParentError(parent)), opened |-> TRUE]
         ELSE [res |-> "Err:Request", err |-> SetupError_new(b, Message("request failed")),
               opened |-> TRUE]

\* A build that connects first and validates the size afterwards.
X11BuildOutcome_connect_first(b, parent, sz, server) ==
    IF server.connect # <<>>
    THEN [res |-> "Err:Connect",
          err |-> SetupError_with_context(b, server.connect[1],
                                          "couldn't connect to display server"),
          opened |-> FALSE]
    ELSE IF ~(u16(sz[1]) /\ u16(sz[2]))
    THEN [res |-> "Err:InvalidSize", err |-> SetupError_new(b, InvalidSizeError(sz)),
          opened |-> TRUE]
    ELSE IF parent_id(parent) = <<>>
    THEN [res |-> "Err:InvalidParent", err |-> SetupError_new(b, InvalidParentError(parent)),
          opened |-> TRUE]
    ELSE IF server.reply = "ConnectionError"
    THEN [res |-> "Err:Connection",
          err |-> SetupError_with_context(b, LibraryError("ConnectionError", <<>>),
                                          "display server connection error"),
          opened |-> TRUE]
    ELSE IF server.reply # "Ok"
    THEN [res |-> "Err:Reply",
          err |-> SetupError_with_context(b, LibraryError("ReplyError", <<>>),
                                          "failed to intern strings"),
          opened |-> TRUE]
    ELSE LET error == FirstError(server.events) IN
         IF error = <<>> THEN [res |-> "Ok", err |-> NoError, opened |-> TRUE]
         ELSE IF /\ error[1].sequence = server.create_window_seq % 65536
                 /\ error[1].error_kind = "Window"
         THEN [res |-> "Err:InvalidParent",
               err |-> SetupError_new(b, InvalidParentError(parent)), opened |-> TRUE]
         ELSE [res |-> "Err:Request", err |-> SetupError_new(b, Message("request failed")),
               opened |-> TRUE]

\* The result of ChildWindow::build on X11, step by step: the size must fit
\* u16; connect; the parent must fit an XID; create_window and the other
\* requests; the atoms' reply; sync; then the first error the server sent.
X11BuildOutcome(b, parent, sz, server) ==
    IF ~(u16(sz[1]) /\ u16(sz[2]))
    THEN [res |-> "Err:InvalidSize", err |-> SetupError_new(b, InvalidSizeError(sz)),
          opened |-> FALSE]
    ELSE IF server.connect # <<>>
    THEN [res |-> "Err:Connect",
          err |-> SetupError_with_context(b, server.connect[1],
                                          "couldn't connect to display server"),
          opened |-> FALSE]
    ELSE IF parent_id(parent) = <<>>
    THEN [res |-> "Err:InvalidParent", err |-> SetupError_new(b, InvalidParentError(parent)),
          opened |-> TRUE]
    ELSE IF server.reply = "ConnectionError"
    THEN [res |-> "Err:Connection",
          err |-> SetupError_with_context(b, LibraryError("ConnectionError", <<>>),
                                          "display server connection error"),
          opened |-> TRUE]
    ELSE IF server.reply # "Ok"
    THEN [res |-> "Err:Reply",
          err |-> SetupError_with_context(b, LibraryError("ReplyError", <<>>),
                                          "failed to intern strings"),
          opened |-> TRUE]
    ELSE LET error == FirstError(server.events) IN
         IF error = <<>> THEN [res |-> "Ok", err |-> NoError, opened |-> TRUE]
         ELSE IF /\ error[1].sequence = server.create_window_seq % 65536
                 /\ error[1].error_kind = "Window"
         THEN [res |-> "Err:InvalidParent",
               err |-> SetupError_new(b, InvalidParentError(parent)), opened |-> TRUE]
         ELSE [res |-> "Err:Request", err |-> SetupError_new(b, Message("request failed")),
               opened |-> TRUE]

\* X11 (ChildWindow::build).  A failed build drops its connection on return,
\* and with it whatever the server had made for it.
X11Build(w, parent, sz, server) ==
    /\ Running /\ backend = "X11"
    /\ phase[w] = "none" /\ setups < MaxSetups
    /\ setups' = setups + 1
    /\ size_xy' = [size_xy EXCEPT ![w] = sz]
    /\ LET out == X11BuildOutcome(backend, parent, sz, server) IN
       IF out.res # "Ok"
       THEN /\ last' = [Failed(w, out.res, out.err) EXCEPT !.opened = out.opened]
            /\ UNCHANGED <<phase, native, conn, nbuf>>
       ELSE /\ conn' = [conn EXCEPT ![w] = 1]
            /\ nbuf' = [nbuf EXCEPT ![w] = <<>>]
            /\ native' = [native EXCEPT ![w] = TRUE]
            /\ phase' = [phase EXCEPT ![w] = "built"]
            /\ last' = [Call("build", w, "Ok") EXCEPT !.opened = out.opened]
    /\ UNCHANGED <<buildVars, notified, todo, backref, channelVars, win32Vars, classVars,
                   cocoaVars, historyVars, fault>>

\* A parent that is neither null nor an NSView: the first message sent to it
\* is undefined behaviour, which either ends the process or goes on as if
\* the pointer were a view.
WildPointer(w, parent) ==
    /\ parent = "stale"
    /\ fault' = "setup: message to an invalid object"
    /\ last' = Call("setup", w, "crash")

\* AppKit, facade (macos/window.rs build): no new window; the host's view and
\* its window are retained.  The size is not validated.
CocoaBuild(w, parent, sz) ==
    /\ Running /\ backend = "AppKit" /\ composition = "facade"
    /\ phase[w] = "none" /\ setups < MaxSetups
    /\ subview[w] = 0
    /\ setups' = setups + 1
    /\ size_xy' = [size_xy EXCEPT ![w] = sz]
    /\ \/ /\ WildPointer(w, parent)
          /\ UNCHANGED <<phase, hostRetain>>
       \/ /\ fault' = fault
          /\ IF parent = "null"
             THEN /\ last' = Failed(w, "Err:Other(invalid parent)",
                                    Error_Other(Message("invalid parent (null pointer)"), "Cocoa"))
                  /\ UNCHANGED <<phase, hostRetain>>
             ELSE /\ hostRetain' = [hostRetain EXCEPT ![w] = [view |-> 1, window |-> 1]]
                  /\ phase' = [phase EXCEPT ![w] = "built"]
                  /\ last' = Call("build", w, "Ok")
    /\ UNCHANGED <<buildVars, notified, todo, native, backref, channelVars, win32Vars,
                   classVars, subview, x11Vars, historyVars>>

\* An event proxy whose init result is not checked for null.
instantiate_event_proxy_unchecked(initOk) ==
    [ok |-> TRUE, sender |-> IF initOk THEN "alive" ELSE "freed",
     subview |-> IF initOk THEN 2 ELSE 0, backref |-> IF initOk THEN "ptr" ELSE "null"]

\* instantiate_event_proxy: alloc the view (+1), box the delegate with the
\* Sender, initWithFrame:andDelegate:, which stores the pointer in the ivar; a
\* null result frees the delegate and is an error; else addSubview (+1).
instantiate_event_proxy(initOk) ==
    [ok |-> initOk, sender |-> IF initOk THEN "alive" ELSE "freed",
     subview |-> IF initOk THEN 2 ELSE 0, backref |-> IF initOk THEN "ptr" ELSE "null"]

\* AppKit, platform module (macos/mod.rs build): the host's window is
\* retained, the channel made, the event proxy instantiated.  When that fails
\* the error is returned; the Receiver and the retained window are released as
\* they go out of scope.  The size is not validated.
CocoaOsBuild(w, parent, sz, initOk) ==
    /\ Running /\ backend = "AppKit" /\ composition = "os"
    /\ phase[w] = "none" /\ setups < MaxSetups
    /\ subview[w] = 0
    /\ setups' = setups + 1
    /\ size_xy' = [size_xy EXCEPT ![w] = sz]
    /\ \/ /\ WildPointer(w, parent)
          /\ UNCHANGED <<phase, todo, hostRetain, subview, backref, channelVars, historyVars>>
       \/ /\ fault' = fault
          /\ IF parent = "null"
             THEN /\ last' = Failed(w, "Err:Other(invalid parent)",
                                    Error_Other(Message("invalid parent (null pointer)"), "Cocoa"))
                  /\ UNCHANGED <<phase, todo, hostRetain, subview, backref, channelVars,
                                 historyVars>>
             ELSE LET proxy == instantiate_event_proxy(initOk) IN
                  /\ hostRetain' = [hostRetain EXCEPT ![w] = [view |-> 0, window |-> 1]]
                  /\ sender' = [sender EXCEPT ![w] = proxy.sender]
                  /\ receiver' = [receiver EXCEPT ![w] = TRUE]
                  /\ queue' = [queue EXCEPT ![w] = <<>>]
                  /\ subview' = [subview EXCEPT ![w] = proxy.subview]
                  /\ backref' = [backref EXCEPT ![w] = proxy.backref]
                  /\ IF ~proxy.ok
                     THEN /\ phase' = [phase EXCEPT ![w] = "unwinding"]
                          /\ todo' = [todo EXCEPT ![w] = <<"drop_receiver", "release_ns_window">>]
                          /\ last' = Failed(w, "Err:initWithFrame",
                                            SetupError_new(backend,
                                                Message("failed to intialize custom NSView")))
                          /\ UNCHANGED historyVars
                     ELSE /\ occurred' = [occurred EXCEPT ![w] = <<>>]
                          /\ got' = [got EXCEPT ![w] = <<>>]
                          /\ phase' = [phase EXCEPT ![w] = "live"]
                          /\ last' = Call("setup", w, "Ok")
                          /\ UNCHANGED todo
    /\ UNCHANGED <<buildVars, notified, native, win32Vars, classVars, x11Vars>>


\* The second half of setup: the event source for the built window, with the
\* size_xy of the call.  A failure drops the built window before setup returns.

\* Win32 (EventSource::new): the channel, the boxed (sender, size_xy), and its
\* pointer stored as the window's GWLP_USERDATA.  SetWindowLongPtrW fails when
\* the window is gone (the host destroyed the parent, and the child with it);
\* the box made by Box::into_raw is not freed on that path.
Win32NewEventSource(w, ok) ==
    /\ Running /\ backend = "Win32"
    /\ phase[w] = "built" /\ wndproc[w] = <<>>
    /\ sender' = [sender EXCEPT ![w] = "alive"]
    /\ queue' = [queue EXCEPT ![w] = <<>>]
    /\ IF ok
       THEN /\ backref' = [backref EXCEPT ![w] = "ptr"]
            /\ receiver' = [receiver EXCEPT ![w] = TRUE]
            /\ occurred' = [occurred EXCEPT ![w] = <<>>]
            /\ got' = [got EXCEPT ![w] = <<>>]
            /\ phase' = [phase EXCEPT ![w] = "live"]
            /\ last' = Call("setup", w, "Ok")
            /\ UNCHANGED <<native, todo, capture>>
       ELSE /\ native' = [native EXCEPT ![w] = FALSE]
            /\ capture' = IF capture = w THEN 0 ELSE capture
            /\ phase' = [phase EXCEPT ![w] = "unwinding"]
            /\ todo' = [todo EXCEPT ![w] = DropWindowImpl(backend)]
            /\ last' = Failed(w, "Err:SetWindowLongPtrW",
                              SetupError_new(backend, Message("SetWindowLongPtrW")))
            /\ UNCHANGED <<backref, receiver, historyVars>>
    /\ UNCHANGED <<buildVars, setups, notified, size_xy, wndproc, classVars, cocoaVars, x11Vars,
                   fault>>

\* X11 (EventSourceImpl::new): a clone of the connection's Arc, and the size.
X11NewEventSource(w) ==
    /\ Running /\ backend = "X11"
    /\ phase[w] = "built"
    /\ conn' = [conn EXCEPT ![w] = @ + 1]
    /\ occurred' = [occurred EXCEPT ![w] = <<>>]
    /\ got' = [got EXCEPT ![w] = <<>>]
    /\ phase' = [phase EXCEPT ![w] = "live"]
    /\ last' = Call("setup", w, "Ok")
    /\ UNCHANGED <<buildVars, todo, setups, notified, size_xy, native, backref, channelVars,
                   win32Vars, classVars, cocoaVars, nbuf, fault>>

\* AppKit, facade (macos/event_source.rs new): alloc the subview (+1), add it
\* to the host's view (+1), make the channel and the boxed delegate, store its
\* pointer in the subview's ivar.
CocoaNewEventSource(w) ==
    /\ Running /\ backend = "AppKit" /\ composition = "facade"
    /\ phase[w] = "built"
    /\ subview' = [subview EXCEPT ![w] = 2]
    /\ sender' = [sender EXCEPT ![w] = "alive"]
    /\ receiver' = [receiver EXCEPT ![w] = TRUE]
    /\ queue' = [queue EXCEPT ![w] = <<>>]
    /\ backref' = [backref EXCEPT ![w] = "ptr"]
    /\ occurred' = [occurred EXCEPT ![w] = <<>>]
    /\ got' = [got EXCEPT ![w] = <<>>]
    /\ phase' = [phase EXCEPT ![w] = "live"]
    /\ last' = Call("setup", w, "Ok")
    /\ UNCHANGED <<buildVars, todo, setups, notified, size_xy, native, win32Vars, classVars,
                   hostRetain, x11Vars, fault>>

\* An editor that takes its window to be there whether or not it is.
is_open_always(w) == phase[w] \in {"live", "none"}

\* MyPluginEditor::is_open: self.window.is_some().
is_open(w) == phase[w] = "live"

\* ---------------------------------------------------------- teardown
\* MyPluginEditor::close with a window: drop(self.window.take()).  The drop
\* runs on the thread that owns the native window, on which no wnd_proc call
\* is under way.
BeginDrop(w) ==
    /\ Running
    /\ is_open(w) /\ wndproc[w] = <<>>
    /\ phase' = [phase EXCEPT ![w] = "dropping"]
    /\ todo' = [todo EXCEPT ![w] = DropOrder(composition, backend)]
    /\ last' = Call("close", w, "drop")
    /\ UNCHANGED <<buildVars, setups, notified, size_xy, native, backref, channelVars, win32Vars,
                   classVars, cocoaVars, x11Vars, historyVars, fault>>

Step(w, name) == Running /\ todo[w] # <<>> /\ Head(todo[w]) = name

\* The steps left after this one; a step that decides the next one is not to
\* run (no class to unregister, no sender to free) skips it.
Rest(w, skipNext) == IF skipNext THEN Tail(Tail(todo[w])) ELSE Tail(todo[w])

Done(w, skipNext) ==
    /\ todo' = [todo EXCEPT ![w] = Rest(w, skipNext)]
    /\ phase' = [phase EXCEPT ![w] = IF Rest(w, skipNext) = <<>> THEN "none" ELSE @]

\* Drop for EditorWindowImpl (windows/window.rs): DestroyWindow(self.hwnd).
\* The window's user data goes with the window; WM_DESTROY reaches wnd_proc
\* first, which reads the boxed sender if the user data still points to it.
DestroyWindow(w) ==
    /\ Step(w, "DestroyWindow")
    /\ native' = [native EXCEPT ![w] = FALSE]
    /\ backref' = [backref EXCEPT ![w] = "null"]
    /\ capture' = IF capture = w THEN 0 ELSE capture
    /\ fault' = IF native[w] /\ backref[w] = "ptr" /\ sender[w] # "alive"
                THEN "wnd_proc: use after free" ELSE fault
    /\ Done(w, FALSE)
    /\ last' = Call("drop", w, "DestroyWindow")
    /\ UNCHANGED <<buildVars, setups, notified, size_xy, channelVars, wndproc, classVars,
                   cocoaVars, x11Vars, historyVars>>

\* Arc<VstWindowClass>::drop: the count goes down by one, atomically; only the
\* holder that took it to zero goes on to drop the VstWindowClass.
class_release(w) ==
    /\ Step(w, "class_release")
    /\ class' = [class EXCEPT !.strong = @ - 1]
    /\ holdsClass' = [holdsClass EXCEPT ![w] = FALSE]
    /\ Done(w, class.strong - 1 > 0)
    /\ last' = Call("drop", w, "class_release")
    /\ UNCHANGED <<buildVars, setups, notified, size_xy, native, backref, channelVars, win32Vars,
                   registrations, unregistrations, cocoaVars, x11Vars, historyVars, fault>>

\* Drop for VstWindowClass: UnregisterClassW, which fails (and is only logged)
\* when the class is not registered or a window of the class still exists.
UnregisterClassW(w) ==
    /\ Step(w, "UnregisterClassW")
    /\ LET ok == class.registered /\ \A v \in Windows : ~native[v] IN
       /\ class' = [class EXCEPT !.registered = IF ok THEN FALSE ELSE @]
       /\ unregistrations' = unregistrations + (IF ok THEN 1 ELSE 0)
       /\ last' = Call("drop", w, IF ok THEN "UnregisterClassW" ELSE "UnregisterClassW failed")
    /\ Done(w, FALSE)
    /\ UNCHANGED <<buildVars, setups, notified, size_xy, native, backref, channelVars, win32Vars,
                   holdsClass, registrations, cocoaVars, x11Vars, historyVars, fault>>

\* Drop for EventSource (windows/event_source.rs), first half:
\* SetWindowLongPtrW(hwnd, GWLP_USERDATA, null) returns the previous value, or
\* 0 when the window no longer exists.
clear_userdata(w) ==
    /\ Step(w, "clear_userdata")
    /\ backref' = [backref EXCEPT ![w] = "null"]
    /\ Done(w, ~(native[w] /\ backref[w] = "ptr"))
    /\ last' = Call("drop", w, "clear_userdata")
    /\ UNCHANGED <<buildVars, setups, notified, size_xy, native, channelVars, win32Vars, classVars,
                   cocoaVars, x11Vars, historyVars, fault>>

\* second half, when the previous value was not null: drop(Box::from_raw(ptr)).
free_sender(w) ==
    /\ Step(w, "free_sender")
    /\ sender' = [sender EXCEPT ![w] = "freed"]
    /\ fault' = IF sender[w] # "alive" THEN "drop: double free" ELSE fault
    /\ Done(w, FALSE)
    /\ last' = Call("drop", w, "free_sender")
    /\ UNCHANGED <<buildVars, setups, notified, size_xy, native, backref, receiver, queue, win32Vars,
                   classVars, cocoaVars, x11Vars, historyVars>>

\* The Receiver field of the event source is dropped, and with it what the
\* channel still buffers.
drop_receiver(w) ==
    /\ Step(w, "drop_receiver")
    /\ receiver' = [receiver EXCEPT ![w] = FALSE]
    /\ queue' = [queue EXCEPT ![w] = <<>>]
    /\ Done(w, FALSE)
    /\ last' = Call("drop", w, "drop_receiver")
    /\ UNCHANGED <<buildVars, setups, notified, size_xy, native, backref, sender, win32Vars,
                   classVars, cocoaVars, x11Vars, historyVars, fault>>


\* Drop for ChildWindow (unix/window.rs): the destroy_window request.
destroy_window(w) ==
    /\ Step(w, "destroy_window")
    /\ native' = [native EXCEPT ![w] = FALSE]
    /\ Done(w, FALSE)
    /\ last' = Call("drop", w, "destroy_window")
    /\ UNCHANGED <<buildVars, setups, notified, size_xy, backref, channelVars, win32Vars, classVars,
                   cocoaVars, x11Vars, historyVars, fault>>

\* Arc<XCBConnection>::drop: the last holder disconnects, and the server
\* drops what the connection owned.
conn_release(w) ==
    /\ Step(w, "conn_release")
    /\ conn' = [conn EXCEPT ![w] = @ - 1]
    /\ nbuf' = [nbuf EXCEPT ![w] = IF conn[w] = 1 THEN <<>> ELSE @]
    /\ native' = [native EXCEPT ![w] = IF conn[w] = 1 THEN FALSE ELSE @]
    /\ Done(w, FALSE)
    /\ last' = Call("drop", w, "conn_release")
    /\ UNCHANGED <<buildVars, setups, notified, size_xy, backref, channelVars, win32Vars, classVars,
                   cocoaVars, historyVars, fault>>

\* Drop for EditorWindowImpl (macos/window.rs), StrongPtr::drop (macos/mod.rs).
release_ns_window(w) ==
    /\ Step(w, "release_ns_window")
    /\ hostRetain' = [hostRetain EXCEPT ![w].window = @ - 1]
    /\ Done(w, FALSE)
    /\ last' = Call("drop", w, "release_ns_window")
    /\ UNCHANGED <<buildVars, setups, notified, size_xy, native, backref, channelVars, win32Vars,
                   classVars, subview, x11Vars, historyVars, fault>>

release_ns_view(w) ==
    /\ Step(w, "release_ns_view")
    /\ hostRetain' = [hostRetain EXCEPT ![w].view = @ - 1]
    /\ Done(w, FALSE)
    /\ last' = Call("drop", w, "release_ns_view")
    /\ UNCHANGED <<buildVars, setups, notified, size_xy, native, backref, channelVars, win32Vars,
                   classVars, subview, x11Vars, historyVars, fault>>

\* dealloc of the event view: the boxed delegate is freed with its Sender.
dealloc(w) ==
    /\ sender' = [sender EXCEPT ![w] = "freed"]
    /\ backref' = [backref EXCEPT ![w] = "null"]

\* Drop for EventSourceImpl (macos/event_source.rs), StrongPtr::drop of the
\* event proxy (macos/mod.rs): one release of the event view.  The host's view
\* retains its subviews, so the view lives on, and stays in the hierarchy,
\* until the host's view lets go of it.
release_subview(w) ==
    /\ Step(w, "release_subview")
    /\ subview' = [subview EXCEPT ![w] = @ - 1]
    /\ IF subview[w] = 1 THEN dealloc(w) ELSE UNCHANGED <<sender, backref>>
    /\ Done(w, FALSE)
    /\ last' = Call("drop", w, "release_subview")
    /\ UNCHANGED <<buildVars, setups, notified, size_xy, native, receiver, queue, win32Vars,
                   classVars, hostRetain, x11Vars, historyVars, fault>>

\* The host destroys the view it lent as the parent, some time after the
\* editor was closed: the view releases its subviews.
HostDestroysView(w) ==
    /\ Running /\ backend = "AppKit"
    /\ phase[w] = "none" /\ subview[w] > 0
    /\ subview' = [subview EXCEPT ![w] = @ - 1]
    /\ IF subview[w] = 1 THEN dealloc(w) ELSE UNCHANGED <<sender, backref>>
    /\ last' = Call("host", w, "destroys view")
    /\ UNCHANGED <<buildVars, phase, todo, setups, notified, size_xy, native, receiver, queue,
                   win32Vars, classVars, hostRetain, x11Vars, historyVars, fault>>

\* A receive that hands out the newest buffered event: last in, first out.
try_recv_newest(q) ==
    IF q # <<>> THEN [res |-> <<q[Len(q)]>>, rest |-> SubSeq(q, 1, Len(q) - 1)]
    ELSE [res |-> <<>>, rest |-> q]

\* A receive that hands out the oldest buffered event and discards the rest.
try_recv_drain(q) ==
    IF q # <<>> THEN [res |-> <<Head(q)>>, rest |-> <<>>] ELSE [res |-> <<>>, rest |-> q]

\* --------------------------------------------------------- poll_event
\* Receiver::try_recv: the oldest buffered event; Empty while a Sender lives;
\* Disconnected once the buffer is empty and every Sender is gone, which
\* poll_event answers with unreachable!.
try_recv(q) ==
    IF q # <<>> THEN [res |-> <<Head(q)>>, rest |-> Tail(q)] ELSE [res |-> <<>>, rest |-> q]

\* A poll_event over one channel that every window's sender feeds: it hands
\* out the oldest event of whichever window has one buffered.
ChannelPoll_shared(w) ==
    /\ Running /\ backend \in {"Win32", "AppKit"}
    /\ is_open(w)
    /\ LET from == IF \E v \in Windows : queue[v] # <<>>
                   THEN CHOOSE v \in Windows : queue[v] # <<>> ELSE w
           r == try_recv(queue[from]) IN
       /\ queue' = [queue EXCEPT ![from] = r.rest]
       /\ got' = [got EXCEPT ![w] = @ \o r.res]
       /\ last' = Polled(w, r.res)
       /\ fault' = IF r.res = <<>> /\ sender[w] # "alive"
                   THEN "poll_event: unreachable" ELSE fault
    /\ UNCHANGED <<buildVars, phase, todo, setups, notified, size_xy, native, backref, sender,
                   receiver, win32Vars, classVars, cocoaVars, x11Vars, occurred>>

\* poll_event of the channel backends, from MyPluginEditor::idle with a window.
ChannelPoll(w) ==
    /\ Running /\ backend \in {"Win32", "AppKit"}
    /\ is_open(w)
    /\ LET r == try_recv(queue[w]) IN
       /\ queue' = [queue EXCEPT ![w] = r.rest]
       /\ got' = [got EXCEPT ![w] = @ \o r.res]
       /\ last' = Polled(w, r.res)
       /\ fault' = IF r.res = <<>> /\ sender[w] # "alive"
                   THEN "poll_event: unreachable" ELSE fault
    /\ UNCHANGED <<buildVars, phase, todo, setups, notified, size_xy, native, backref, sender,
                   receiver, win32Vars, classVars, cocoaVars, x11Vars, occurred>>

\* The loop of the X11 poll_event over what poll_for_event hands out: the
\* first notification that translates is returned (as a sequence of one), the
\* ones before it are consumed, and an empty buffer ends the loop with None
\* (the empty sequence).  queries counts the calls of poll_for_event: one
\* per iteration of the loop.
RECURSIVE X11PollLoop(_, _)
X11PollLoop(buf, size) ==
    IF buf = <<>> THEN [res |-> <<>>, rest |-> <<>>, queries |-> 1]
    ELSE LET ev == X11Events(Head(buf), size) IN
         IF ev # <<>> THEN [res |-> ev, rest |-> Tail(buf), queries |-> 1]
         ELSE [X11PollLoop(Tail(buf), size) EXCEPT !.queries = @ + 1]

\* A poll_event that gives up at the first notification it does not translate.
X11PollResult_first_only(buf, size, queryOk) ==
    IF ~queryOk THEN [res |-> <<>>, rest |-> buf, queries |-> 1]
    ELSE IF buf = <<>> THEN [res |-> <<>>, rest |-> <<>>, queries |-> 1]
    ELSE [res |-> X11Events(Head(buf), size), rest |-> Tail(buf), queries |-> 1]

\* A poll_event that asks the connection again after the loop has ended.
X11PollResult_requery(buf, size, queryOk) ==
    IF queryOk THEN [X11PollLoop(buf, size) EXCEPT !.queries = @ + 1]
    ELSE [res |-> <<>>, rest |-> buf, queries |-> 1]

\* A poll_event that gives up the connection's buffer when the query fails.
X11PollResult_lossy(buf, size, queryOk) ==
    IF queryOk THEN X11PollLoop(buf, size) ELSE [res |-> <<>>, rest |-> <<>>, queries |-> 1]

\* The result of the X11 poll_event: a poll_for_event that fails is logged
\* and answered None, and nothing is taken from the connection.
X11PollResult(buf, size, queryOk) ==
    IF queryOk THEN X11PollLoop(buf, size) ELSE [res |-> <<>>, rest |-> buf, queries |-> 1]

\* X11 poll_event.
X11Poll(w, queryOk) ==
    /\ Running /\ backend = "X11"
    /\ is_open(w)
    /\ LET r == X11PollResult(nbuf[w], size_xy[w], queryOk) IN
       /\ nbuf' = [nbuf EXCEPT ![w] = r.rest]
       /\ got' = [got EXCEPT ![w] = @ \o r.res]
       /\ last' = Polled(w, r.res)
    /\ UNCHANGED <<buildVars, phase, todo, setups, notified, size_xy, native, backref, channelVars,
                   win32Vars, classVars, cocoaVars, conn, occurred, fault>>

\* A wnd_proc that takes the user data for a sender without looking at it.
WndProcEnter_unchecked(w, note) ==
    /\ Running /\ backend = "Win32"
    /\ native[w] /\ wndproc[w] = <<>>
    /\ phase[w] \in {"built", "live"}
    /\ notified < MaxNotes
    /\ notified' = notified + 1
    /\ wndproc' = [wndproc EXCEPT ![w] = <<note>>]
    /\ occurred' = [occurred EXCEPT ![w] = Append(@, note)]
    /\ last' = Call("wnd_proc", w, "enter")
    /\ UNCHANGED <<buildVars, phase, todo, setups, size_xy, native, backref, channelVars,
                   capture, classVars, cocoaVars, x11Vars, got, fault>>

\* ------------------------------------------------------ notifications
\* wnd_proc, up to the match: GetWindowLongPtrW(hwnd, GWLP_USERDATA); with a
\* null pointer the message only goes to DefWindowProcW.
WndProcEnter(w, note) ==
    /\ Running /\ backend = "Win32"
    /\ native[w] /\ wndproc[w] = <<>>
    /\ phase[w] \in {"built", "live"}
    /\ IF backref[w] = "null"
       THEN /\ last' = [Call("wnd_proc", w, "ignored")
                          EXCEPT !.forwarded = DefWindowProcW_calls(Umsg(note), TRUE)]
            /\ UNCHANGED <<wndproc, occurred, notified>>
       ELSE /\ notified < MaxNotes
            /\ notified' = notified + 1
            /\ wndproc' = [wndproc EXCEPT ![w] = <<note>>]
            /\ occurred' = [occurred EXCEPT ![w] = Append(@, note)]
            /\ last' = Call("wnd_proc", w, "enter")
    /\ UNCHANGED <<buildVars, phase, todo, setups, size_xy, native, backref, channelVars,
                   capture, classVars, cocoaVars, x11Vars, got, fault>>

\* A send into a buffer of one: the events are lost while one is buffered.
send_bounded(q, events) == IF q # <<>> THEN q ELSE q \o events

\* Sender::send: the events go to the back of the channel's buffer, which has
\* no bound.
send(q, events) == q \o events

\* Sender::send fails once the Receiver is gone, and the callbacks unwrap it.
SendFault(w, events) ==
    IF events # <<>> /\ ~receiver[w] THEN "callback: send on a closed channel" ELSE fault

\* wnd_proc, from the match on: the arm's event is sent through the boxed
\* sender, the capture set or released, the message passed to DefWindowProcW.
WndProcDispatch(w) ==
    /\ Running /\ backend = "Win32"
    /\ wndproc[w] # <<>>
    /\ LET events == WndProcEvents(wndproc[w][1], size_xy[w]) IN
       /\ fault' = IF sender[w] # "alive" THEN "wnd_proc: use after free"
                   ELSE SendFault(w, events)
       /\ queue' = [queue EXCEPT ![w] = IF receiver[w] THEN send(@, events) ELSE @]
    /\ capture' = WndProcCapture(wndproc[w][1], w, capture)
    /\ wndproc' = [wndproc EXCEPT ![w] = <<>>]
    /\ last' = [Call("wnd_proc", w, "return")
                   EXCEPT !.forwarded = DefWindowProcW_calls(Umsg(wndproc[w][1]), FALSE)]
    /\ UNCHANGED <<buildVars, phase, todo, setups, notified, size_xy, native, backref, sender,
                   receiver, classVars, cocoaVars, x11Vars, historyVars>>

\* An AppKit callback of the event view, on the main thread, between the
\* host's calls: the view gets mouse events for as long as it is in the
\* host's view, and sends what they translate to through its delegate.
CocoaCallback(w, note) ==
    /\ Running /\ backend = "AppKit"
    /\ subview[w] > 0 /\ phase[w] \in {"live", "none"}
    /\ notified < MaxNotes
    /\ notified' = notified + 1
    /\ LET events == CocoaEvents(note, size_xy[w]) IN
       /\ fault' = IF events # <<>> /\ sender[w] # "alive"
                   THEN "callback: use after free" ELSE SendFault(w, events)
       /\ queue' = [queue EXCEPT ![w] = IF receiver[w] THEN send(@, events) ELSE @]
    /\ occurred' = [occurred EXCEPT ![w] = IF phase[w] = "live" THEN Append(@, note) ELSE @]
    /\ last' = Call("callback", w, Selector(note))
    /\ UNCHANGED <<buildVars, phase, todo, setups, size_xy, native, backref, sender,
                   receiver, win32Vars, classVars, cocoaVars, x11Vars, got>>

\* The X server reports a notification of the window on its connection.
X11Notify(w, note) ==
    /\ Running /\ backend = "X11"
    /\ conn[w] > 0 /\ native[w] /\ phase[w] = "live"
    /\ notified < MaxNotes
    /\ notified' = notified + 1
    /\ nbuf' = [nbuf EXCEPT ![w] = Append(@, note)]
    /\ occurred' = [occurred EXCEPT ![w] = Append(@, note)]
    /\ last' = Call("notify", w, note.kind)
    /\ UNCHANGED <<buildVars, phase, todo, setups, size_xy, native, backref, channelVars,
                   win32Vars, classVars, cocoaVars, conn, got, fault>>


\* ------------------------------------------- the editor's other calls
\* An open that sets a window up whether or not the editor has one.
OpenWhileOpen_again(w) ==
    /\ Running /\ is_open(w)
    /\ setups < MaxSetups
    /\ setups' = setups + 1
    /\ last' = Call("setup", w, "Ok")
    /\ UNCHANGED <<buildVars, phase, todo, notified, size_xy, native, backref, channelVars,
                   win32Vars, classVars, cocoaVars, x11Vars, historyVars, fault>>

\* MyPluginEditor::open with a window: false, and setup is not called.
OpenWhileOpen(w) ==
    /\ Running /\ is_open(w)
    /\ last' = Call("open", w, "false")
    /\ UNCHANGED <<buildVars, phase, todo, setups, notified, size_xy, native, backref, channelVars,
                   win32Vars, classVars, cocoaVars, x11Vars, historyVars, fault>>

\* MyPluginEditor::close without a window: take() of None drops nothing.
CloseWhileClosed(w) ==
    /\ Running /\ phase[w] = "none" /\ ~is_open(w)
    /\ last' = Call("close", w, None)
    /\ UNCHANGED <<buildVars, phase, todo, setups, notified, size_xy, native, backref, channelVars,
                   win32Vars, classVars, cocoaVars, x11Vars, historyVars, fault>>

\* MyPluginEditor::idle without a window: poll_event is not called.
IdleWhileClosed(w) ==
    /\ Running /\ phase[w] = "none" /\ ~is_open(w)
    /\ last' = Call("idle", w, None)
    /\ UNCHANGED <<buildVars, phase, todo, setups, notified, size_xy, native, backref, channelVars,
                   win32Vars, classVars, cocoaVars, x11Vars, historyVars, fault>>

\* ------------------------------------------------------ specification
\* setup with a parent and a size out of the given sets.
SetupWith(w, parents, sizes) ==
    \/ \E parent \in parents, sz \in sizes : Win32Build(w, parent, sz)
    \/ \E parent \in parents, sz \in sizes :
            \E server \in X11Servers[parent] : X11Build(w, parent, sz, server)
    \/ \E parent \in parents, sz \in sizes : CocoaBuild(w, parent, sz)
    \/ \E parent \in parents, sz \in sizes, initOk \in BOOLEAN :
            CocoaOsBuild(w, parent, sz, initOk)
    \/ \E ok \in BOOLEAN : Win32NewEventSource(w, ok)
    \/ X11NewEventSource(w)
    \/ CocoaNewEventSource(w)

\* MyPluginEditor::open: setup(parent, WINDOW_DIMENSIONS).
Setup(w) == SetupWith(w, Parents, Sizes)

DropStep(w) ==
    \/ DestroyWindow(w)
    \/ class_release(w)
    \/ UnregisterClassW(w)
    \/ clear_userdata(w)
    \/ free_sender(w)
    \/ drop_receiver(w)
    \/ destroy_window(w)
    \/ conn_release(w)
    \/ release_ns_window(w)
    \/ release_ns_view(w)
    \/ release_subview(w)

Poll(w) ==
    \/ ChannelPoll(w)
    \/ \E queryOk \in BOOLEAN : X11Poll(w, queryOk)

\* A notification out of the given set reaches the window.
NotifyWith(w, notes) ==
    \/ \E note \in notes : WndProcEnter(w, note)
    \/ WndProcDispatch(w)
    \/ \E note \in notes : CocoaCallback(w, note)
    \/ \E note \in notes : X11Notify(w, note)

Notify(w) == NotifyWith(w, Notes)

Next ==
    \E w \in Windows :
        \/ Setup(w)
        \/ BeginDrop(w)
        \/ DropStep(w)
        \/ Poll(w)
        \/ Notify(w)
        \/ HostDestroysView(w)
        \/ OpenWhileOpen(w)
        \/ CloseWhileClosed(w)
        \/ IdleWhileClosed(w)

Spec == Init /\ [][Next]_vars

\* One window in the hands of a direct caller of the crate's API: setup with
\* any parent and any size, poll_event, drop; the display system reports any
\* position and any button.
ApiNext ==
    \/ SetupWith(1, AnyParents, AnySizes)
    \/ BeginDrop(1)
    \/ DropStep(1)
    \/ Poll(1)
    \/ NotifyWith(1, AnyNotes)
    \/ HostDestroysView(1)

ApiSpec == Init /\ [][ApiNext]_vars

\* A host with two windows of the crate open side by side, of sizes of their
\* own, each under a valid parent; the pointer moves inside a window or the
\* left button goes down in its corner.
PairSizes == {WINDOW_DIMENSIONS, <<4, 2>>}

PairNotes == {Move(<<75, 150>>), Press("Left", <<0, 0>>)}

PairNext ==
    \E w \in Windows :
        \/ SetupWith(w, {"valid"}, PairSizes)
        \/ BeginDrop(w)
        \/ DropStep(w)
        \/ Poll(w)
        \/ NotifyWith(w, PairNotes)
        \/ HostDestroysView(w)

PairSpec == Init /\ [][PairNext]_vars

\* The same caller on the X11 backend alone, with the display server's part
\* in every build, poll and notification.
X11Init == Init /\ backend = "X11"

\* The core events an X server sends: also a wheel step, which is a press and
\* release of button 4, and a detail of 0.
X11Notes ==
    AnyNotes \cup {Press(b, p) : b \in {"WheelUp", "Any"}, p \in Positions}
             \cup {Release(b, p) : b \in {"WheelUp", "Any"}, p \in Positions}

X11Next ==
    \/ \E parent \in AnyParents, sz \in AnySizes :
            \E server \in X11Servers[parent] : X11Build(1, parent, sz, server)
    \/ X11NewEventSource(1)
    \/ BeginDrop(1)
    \/ destroy_window(1)
    \/ conn_release(1)
    \/ \E queryOk \in BOOLEAN : X11Poll(1, queryOk)
    \/ \E note \in X11Notes : X11Notify(1, note)

X11Spec == X11Init /\ [][X11Next]_vars

\* The same caller on the AppKit backend alone; the view is also told of
\* drags.
CocoaInit == Init /\ backend = "AppKit"

CocoaNotes == AnyNotes \cup {Drag(p) : p \in AnyPositions}

CocoaNext ==
    \/ \E parent \in AnyParents, sz \in AnySizes : CocoaBuild(1, parent, sz)
    \/ \E parent \in AnyParents, sz \in AnySizes, initOk \in BOOLEAN :
            CocoaOsBuild(1, parent, sz, initOk)
    \/ CocoaNewEventSource(1)
    \/ BeginDrop(1)
    \/ release_ns_window(1)
    \/ release_ns_view(1)
    \/ release_subview(1)
    \/ drop_receiver(1)
    \/ ChannelPoll(1)
    \/ \E note \in CocoaNotes : CocoaCallback(1, note)
    \/ HostDestroysView(1)

CocoaSpec == CocoaInit /\ [][CocoaNext]_vars

\* The same caller on the Win32 backend alone.
Win32Init == Init /\ backend = "Win32"

Win32Next ==
    \/ \E parent \in AnyParents, sz \in AnySizes : Win32Build(1, parent, sz)
    \/ \E ok \in BOOLEAN : Win32NewEventSource(1, ok)
    \/ BeginDrop(1)
    \/ DestroyWindow(1)
    \/ class_release(1)
    \/ UnregisterClassW(1)
    \/ clear_userdata(1)
    \/ free_sender(1)
    \/ drop_receiver(1)
    \/ ChannelPoll(1)
    \/ \E note \in AnyNotes : WndProcEnter(1, note)
    \/ WndProcDispatch(1)

Win32Spec == Win32Init /\ [][Win32Next]_vars

\* ================================================================ properties
IsPrefix(a, b) == Len(a) <= Len(b) /\ SubSeq(b, 1, Len(a)) = a

\* The events a window's notifications so far translate to, in their order.
Expected(w) == TranslateAll(backend, occurred[w], size_xy[w])

\* The events buffered for poll_event: the channel's buffer, or what the
\* notifications buffered on the X11 connection translate to.
Buffered(w) ==
    IF backend = "X11" THEN TranslateAll(backend, nbuf[w], size_xy[w]) ELSE queue[w]

BufferedNext(w) ==
    IF backend = "X11" THEN TranslateAll(backend, nbuf'[w], size_xy'[w]) ELSE queue'[w]

\* The events of the notification a running wnd_proc has not sent yet.
InFlight(w) ==
    IF wndproc[w] = <<>> THEN <<>> ELSE WndProcEvents(wndproc[w][1], size_xy[w])

\* C1: the events poll_event has returned for a live window are, in order, the
\* first of the events its notifications translate to in the order the
\* notifications occurred: A's event is returned before B's when A occurred
\* before B.
C1_PollIsFifo ==
    \A w \in Windows : is_open(w) => IsPrefix(got[w], Expected(w))

\* Two notifications that translate to different events have occurred for one
\* window, and poll_event has returned the events of both.
C1_Witness ==
    \E w \in Windows :
        /\ is_open(w) /\ Len(occurred[w]) = 2
        /\ Translate(backend, occurred[w][1], size_xy[w]) # <<>>
        /\ Translate(backend, occurred[w][2], size_xy[w]) # <<>>
        /\ Translate(backend, occurred[w][1], size_xy[w])
               # Translate(backend, occurred[w][2], size_xy[w])
        /\ got[w] = Expected(w)

\* C2: with wnd_proc and poll_event interleaved in any way, the events of the
\* notifications a live window has had are exactly the events returned so far,
\* then the events buffered, then the events of the notification wnd_proc is
\* still working on: each is returned once or still to be returned, none is
\* lost and none is there twice.
C2_NoneLostNoneTwice ==
    \A w \in Windows :
        is_open(w) => Expected(w) = got[w] \o Buffered(w) \o InFlight(w)

\* poll_event has returned an event of one notification while wnd_proc is at
\* work on the next notification of the same window.
C2_Witness ==
    \E w \in Windows :
        /\ backend = "Win32" /\ is_open(w)
        /\ got[w] # <<>>
        /\ last = Polled(w, <<got[w][Len(got[w])]>>)
        /\ InFlight(w) # <<>>

\* What a poll_event call of window w does when the native query does or
\* does not hand out what is buffered.
PollFrame(w, available) ==
    /\ UNCHANGED <<phase, todo, native, backref, sender, receiver, size_xy, capture,
                   wndproc, class, holdsClass, subview, hostRetain, conn, fault>>
    /\ \A v \in Windows \ {w} : queue'[v] = queue[v] /\ nbuf'[v] = nbuf[v] /\ got'[v] = got[v]
    /\ IF available /\ Buffered(w) # <<>>
       THEN /\ last' = Polled(w, <<Head(Buffered(w))>>)
            /\ BufferedNext(w) = Tail(Buffered(w))
            /\ got'[w] = Append(got[w], Head(Buffered(w)))
       ELSE /\ last' = Polled(w, <<>>)
            /\ BufferedNext(w) = Buffered(w)
            /\ got'[w] = got[w]

\* C3: poll_event never waits (it can always be taken on a live window); with
\* nothing buffered it returns None and leaves the window, the capture state
\* and the queue as they were; with events buffered it returns the oldest one
\* and removes only that one.
C3_PollNeverWaits ==
    /\ [](\A w \in Windows : Running /\ is_open(w) => ENABLED Poll(w))
    /\ [][\A w \in Windows :
            /\ ChannelPoll(w) => PollFrame(w, TRUE)
            /\ \A queryOk \in BOOLEAN : X11Poll(w, queryOk) => PollFrame(w, queryOk)]_vars

\* poll_event has returned the oldest event and another one is still buffered.
C3_Witness ==
    /\ last.op = "poll_event" /\ last.res = "Some"
    /\ Buffered(last.w) # <<>>

\* No slot is inside setup or inside drop.
Quiescent == \A w \in Windows : phase[w] \in {"none", "live"}

\* The capture state of a slot is live: the boxed sender or delegate of the
\* channel backends, the event source's share of the connection on X11.
CaptureLive(w) == IF backend = "X11" THEN conn[w] = 2 ELSE sender[w] = "alive"

\* C4: after any sequence of setups and teardowns, a window is live exactly
\* when its capture state is live: every live window has its one capture state
\* and every live capture state has its one live window.
C4_CapturePairing ==
    Quiescent => \A w \in Windows : is_open(w) <=> CaptureLive(w)

\* The window backend's resource of a slot is released.
WindowReleased(w) == IF backend = "AppKit" THEN hostRetain[w].window = 0 ELSE ~native[w]

\* The event capture's resources of a slot are released.
CaptureReleased(w) == IF backend = "X11" THEN conn[w] <= 1 ELSE ~receiver[w]

\* C5: in every teardown the event source is released before the native
\* window is destroyed: inside a drop, the window is never gone while the
\* event source is still there.
C5_CaptureReleasedFirst ==
    \A w \in Windows :
        phase[w] = "dropping" /\ WindowReleased(w) => CaptureReleased(w)

\* C6: no callback reads a freed delegate or sender, none sends into a channel
\* whose receiver is released, and whenever the receiver of a channel is
\* released the native object's back-reference is already null.
C6_TeardownSafe ==
    /\ fault \notin {"callback: use after free", "wnd_proc: use after free",
                     "callback: send on a closed channel"}
    /\ \A w \in Windows : sender[w] # "none" /\ ~receiver[w] => backref[w] = "null"

\* C7: close without a window, and idle without a window, change nothing: no
\* fault, no resource released a second time (no count below zero, no double
\* free, no failed unregistration, no poll of a dead channel), no further
\* event.
C7_CloseIsIdempotent ==
    /\ [](/\ fault \notin {"drop: double free", "poll_event: unreachable"}
          /\ last.res # "UnregisterClassW failed"
          /\ class.strong >= 0 /\ unregistrations <= registrations
          /\ \A w \in Windows :
                /\ conn[w] >= 0 /\ subview[w] >= 0
                /\ hostRetain[w].view >= 0 /\ hostRetain[w].window >= 0)
    /\ [][\A w \in Windows :
            phase[w] = "none" /\ last'.w = w /\ last'.op \in {"close", "idle", "poll_event"}
                => UNCHANGED <<phase, todo, native, backref, sender, receiver, queue, wndproc,
                               capture, class, holdsClass, registrations, unregistrations,
                               subview, hostRetain, conn, nbuf, got, fault>>]_vars

\* close was called on a slot whose window had returned events and is gone.
C7_Witness ==
    \E w \in Windows : last = Call("close", w, None) /\ got[w] # <<>>

\* The slots that hold a reference to the window class.
Holders == {w \in Windows : holdsClass[w]}

\* C8: the class is registered only by a setup that finds no holder; two
\* windows opened one after the other are one registration; the reference
\* count is the number of holders, and is back to zero when every window is
\* torn down.
C8_ClassRegisteredOnce ==
    /\ [](backend = "Win32" =>
            /\ class.strong = Cardinality(Holders)
            /\ ((\A w \in Windows : is_open(w)) /\ setups = NumWindows => registrations = 1)
            /\ ((\A w \in Windows : phase[w] = "none") => class.strong = 0))
    /\ [][registrations' # registrations =>
            /\ registrations' = registrations + 1
            /\ Holders = {}
            /\ \A w \in Windows : ~is_open(w)]_vars

\* Every window is open, each opened by its first setup.
C8_Witness ==
    /\ backend = "Win32" /\ setups = NumWindows
    /\ \A w \in Windows : is_open(w)

\* C9: each registration is unregistered once, by the teardown that releases
\* the last reference: the class is registered while any native window of it
\* exists, a native window exists only while its slot holds the class, no
\* UnregisterClassW fails, and the class is not registered once every window
\* is gone.
C9_UnregisteredOncePerRegistration ==
    backend = "Win32" =>
        /\ registrations - unregistrations = (IF class.registered THEN 1 ELSE 0)
        /\ \A w \in Windows : native[w] => class.registered /\ holdsClass[w]
        /\ last.res # "UnregisterClassW failed"
        /\ ((\A w \in Windows : phase[w] = "none") => ~class.registered)

\* Two windows were open under one registration, and the teardown of the
\* last one has just unregistered the class.
C9_Witness ==
    /\ backend = "Win32" /\ setups = 2 /\ registrations = 1
    /\ last.op = "drop" /\ last.res = "UnregisterClassW"
    /\ \A w \in Windows : got[w] # <<>> /\ phase[w] = "none"

\* C10: a setup that runs while another thread tears down the last window
\* never tries to register the class while it is still registered, and does
\* not fail for it.
C10_SetupNotFailedByTeardown ==
    ~(last.op = "setup" /\ last.res = "Err:RegisterClassExW")

\* The movement the offset p from the top-left corner of a window of the
\* given size is to be reported as: CursorMovement(px / w, py / h).
PointerEvent(p, size) == CursorMovement(Frac(p[1], size[1]), Frac(p[2], size[2]))

UnknownButton(note) == note.kind \in {"press", "release"} /\ note.button \notin MouseButton

\* C12: a press or release of a button that is not the primary, secondary or
\* middle one produces no event and leaves the queue alone: what poll_event
\* has returned and is still to return for a window is what its notifications
\* translate to with those presses and releases left out.
C12_UnknownButtonIgnored ==
    \A w \in Windows :
        is_open(w) =>
            got[w] \o Buffered(w) \o InFlight(w)
                = TranslateAll(backend, SelectSeq(occurred[w], LAMBDA n : ~UnknownButton(n)),
                               size_xy[w])

\* A size the claim takes to be invalid on every platform: a negative width
\* or height, or a width beyond every platform's maximum.
OutOfRange(size) == size[1] < 0 \/ size[2] < 0 \/ size[1] > 65535

\* C13: setup with a negative width or height, or with a width beyond the
\* platform's maximum, fails with an InvalidWindowSize error and returns no
\* window, on every backend: no slot whose setup was called with such a size
\* has a built or live window, and the call that was given it returned that
\* error.
C13_InvalidSizeRejected ==
    \A w \in Windows :
        OutOfRange(size_xy[w]) =>
            /\ phase[w] \notin {"built", "live"}
            /\ (last.w = w /\ last.op \in {"setup", "build"}
                    => last.err.source.kind = "InvalidSizeError")

\* A field that is a bound the size violates: <<least, greatest>>.
ViolatedBound(field, size) ==
    /\ Len(field) = 2 /\ field[1] <= field[2]
    /\ \E i \in 1..2 : size[i] < field[1] \/ size[i] > field[2]

\* C14: every InvalidWindowSize error setup returns carries the requested
\* size and the valid bound the size violated: two of its fields are these.
C14_SizeErrorCarriesBound ==
    last.op = "setup" /\ last.err.source.kind = "InvalidSizeError" =>
        \E i, j \in 1..Len(last.err.source.fields) :
            /\ i # j
            /\ last.err.source.fields[i] = size_xy[last.w]
            /\ ViolatedBound(last.err.source.fields[j], size_xy[last.w])

\* The backend an error names, whichever of its names the code uses.
Denotes(name) ==
    CASE name = "WinApi" -> "Win32"
      [] name = "Cocoa" -> "AppKit"
      [] OTHER -> name

\* What setup is to answer on an invalid parent: an InvalidParent error that
\* names the backend, and no window.
InvalidParentAnswer(w) ==
    /\ last'.op = "setup" /\ last'.w = w
    /\ last'.err.source.kind = "InvalidParentError"
    /\ Denotes(last'.err.backend) = backend
    /\ phase'[w] \notin {"built", "live"}

\* C15: on each of the three backends, setup with a null parent, or with a
\* parent the platform can tell is no valid surface, and with nothing else
\* wrong (a valid size, a display server that answers, a class that
\* registers), fails with an InvalidParent error that names the backend, and
\* returns no window.
C15_InvalidParentRejected ==
    [][\A w \in Windows, sz \in Sizes :
        /\ \A p \in {"null", "stale"} :
              /\ Win32Build(w, p, sz) /\ get_window_class(class).ok => InvalidParentAnswer(w)
              /\ \A server \in X11Servers[p] :
                    server.connect = <<>> /\ server.reply = "Ok" /\ X11Build(w, p, sz, server)
                    => InvalidParentAnswer(w)
        /\ CocoaBuild(w, "null", sz) => InvalidParentAnswer(w)
        /\ \A initOk \in BOOLEAN : CocoaOsBuild(w, "null", sz, initOk) => InvalidParentAnswer(w)]_vars

\* C16: every SetupError reports, through backend(), the backend in use on
\* the platform: AppKit on macOS, Win32 on Windows, X11 on Unix.
C16_ErrorNamesBackend ==
    last.err.type = "SetupError" => last.err.backend = backend

\* What a slot holds: the resources setup acquires step by step.
Held(w) ==
    {r \in {"window", "class", "connection", "sender", "receiver", "host window",
            "host view", "event view"} :
        CASE r = "window" -> native[w]
          [] r = "class" -> holdsClass[w]
          [] r = "connection" -> conn[w] > 0
          [] r = "sender" -> sender[w] = "alive"
          [] r = "receiver" -> receiver[w]
          [] r = "host window" -> hostRetain[w].window > 0
          [] r = "host view" -> hostRetain[w].view > 0
          [] OTHER -> subview[w] > 0}

\* C17: a setup that fails at any step returns its error at once, without a
\* retry and without a window, and by the time it returns everything the
\* earlier steps of the call acquired (connection, child window, class
\* reference, boxed sender) is released: the slot holds what it held before
\* the call, which is nothing.
C17_FailedSetupHoldsNothing ==
    [][\A w \in Windows :
        /\ phase'[w] = "none"
        /\ \/ phase[w] = "unwinding"
           \/ phase[w] = "none" /\ last'.op = "setup" /\ last'.w = w /\ last'.err # NoError
        => /\ Held(w)' = {}
           /\ setups' <= setups + 1]_vars

\* C18: wherever an EditorWindow of a channel backend exists, the producing
\* side of its channel exists as well: poll_event never finds the channel
\* disconnected and never runs its unreachable! branch.
C18_SenderOutlivesWindow ==
    /\ fault # "poll_event: unreachable"
    /\ \A w \in Windows :
        backend \in {"Win32", "AppKit"} /\ is_open(w) => sender[w] = "alive" /\ receiver[w]

\* poll_event has found the channel of a live window empty, after the window
\* had returned events: the Sender's being there made that None.
C18_Witness ==
    \E w \in Windows :
        /\ backend \in {"Win32", "AppKit"} /\ is_open(w)
        /\ last = Polled(w, <<>>) /\ got[w] # <<>> /\ fault = None

\* C19: on X11 a failure of the native query inside poll_event is not
\* surfaced: that poll_event returns None, nothing faults, and the window
\* stays as usable as it was, with its connection and with what the
\* connection has buffered, so that a later poll_event can be made and returns
\* what an earlier one would have.
C19_QueryFailureIsNone ==
    /\ [][\A w \in Windows :
            X11Poll(w, FALSE) =>
                /\ last' = Polled(w, <<>>)
                /\ fault' = fault
                /\ is_open(w)'
                /\ UNCHANGED <<conn, native, nbuf, got, phase>>]_vars
    /\ [](\A w \in Windows :
            backend = "X11" /\ is_open(w) /\ Running => ENABLED X11Poll(w, TRUE))

\* poll_event has returned None on a live X11 window although a notification
\* that translates to an event is buffered: the query had failed.
C19_Witness ==
    \E w \in Windows :
        /\ backend = "X11" /\ is_open(w)
        /\ last = Polled(w, <<>>) /\ Buffered(w) # <<>> /\ fault = None

\* The notifications of a window that wnd_proc has finished with.
Dispatched(w) ==
    IF wndproc[w] = <<>> THEN occurred[w] ELSE SubSeq(occurred[w], 1, Len(occurred[w]) - 1)

\* The buttons whose press was reported and whose release has not followed.
RECURSIVE StillPressed(_)
StillPressed(notes) ==
    IF notes = <<>> THEN {}
    ELSE LET n == notes[Len(notes)]
             before == StillPressed(SubSeq(notes, 1, Len(notes) - 1)) IN
         IF n.button \notin MouseButton THEN before
         ELSE IF n.kind = "press" THEN before \cup {n.button}
         ELSE IF n.kind = "release" THEN before \ {n.button}
         ELSE before

\* C20: on Win32, for any sequence of presses and releases on a window, the
\* capture is engaged from a button's press to the release of that button:
\* while a button whose press was reported is not yet released the window
\* has the capture, and once every pressed button is released it has not.
C20_CaptureUntilMatchingRelease ==
    backend = "Win32" =>
        \A w \in Windows :
            is_open(w) /\ Dispatched(w) # <<>> =>
                IF StillPressed(Dispatched(w)) # {}
                THEN capture = w
                ELSE Dispatched(w)[Len(Dispatched(w))].kind = "release" => capture # w

\* A fraction <<n, d>> with d > 0 is below 0, or above 1.
BelowZero(f) == f[1] < 0

AboveOne(f) == f[1] > f[2]

\* C21: coordinates are not clamped: for a window of a positive size whose
\* notifications were pointer moves, the movement reported for a position
\* outside the window (an offset that is negative, or greater than the width
\* or height) carries offset / size as it is, below 0 or above 1.
C21_OutsideIsNotClamped ==
    \A w \in Windows :
        /\ is_open(w) /\ size_xy[w][1] > 0 /\ size_xy[w][2] > 0
        /\ \A i \in 1..Len(occurred[w]) : occurred[w][i].kind = "move"
        => LET events == got[w] \o Buffered(w) \o InFlight(w) IN
           /\ Len(events) = Len(occurred[w])
           /\ \A i \in 1..Len(occurred[w]) :
                LET pos == occurred[w][i].pos
                    e == events[i] IN
                /\ e[1] = "CursorMovement"
                /\ pos[1] < 0 => BelowZero(e[2])
                /\ pos[2] < 0 => BelowZero(e[3])
                /\ pos[1] > size_xy[w][1] => AboveOne(e[2])
                /\ pos[2] > size_xy[w][2] => AboveOne(e[3])
                /\ e[2][1] * size_xy[w][1] = pos[1] * e[2][2]
                /\ e[3][1] * size_xy[w][2] = pos[2] * e[3][2]

\* poll_event has returned the movement of a position left of and below the
\* window: x below 0, y above 1.
C21_Witness ==
    \E w \in Windows :
        /\ is_open(w) /\ size_xy[w] = WINDOW_DIMENSIONS
        /\ occurred[w] = <<Move(<<-30, 250>>)>>
        /\ got[w] = <<CursorMovement(<<-1, 10>>, <<5, 4>>)>>

\* The fraction f is n / d.
IsRatio(f, n, d) == f[1] * d = n * f[2]

\* C22: the divisors of every CursorMovement are the size given to setup, for
\* the whole lifetime of the window: once a slot holds a window (built, live
\* or being torn down) no step changes its stored size, and every movement
\* delivered for an open window is the position of one of its notifications
\* divided by that size, the x offset by the width and the y offset by the
\* height.
C22_SizeIsFixed ==
    /\ [](\A w \in Windows :
            is_open(w) /\ size_xy[w][1] > 0 /\ size_xy[w][2] > 0
            => LET events == got[w] \o Buffered(w) \o InFlight(w) IN
               \A i \in 1..Len(events) :
                   events[i][1] = "CursorMovement"
                   => \E j \in 1..Len(occurred[w]) :
                          /\ IsRatio(events[i][2], occurred[w][j].pos[1], size_xy[w][1])
                          /\ IsRatio(events[i][3], occurred[w][j].pos[2], size_xy[w][2]))
    /\ [][\A w \in Windows : phase[w] # "none" => size_xy'[w] = size_xy[w]]_vars

\* A window set up with the size (4, 2) has seen two moves, and poll_event has
\* returned both, each divided by (4, 2).
C22_Witness ==
    \E w \in Windows :
        /\ is_open(w) /\ size_xy[w] = <<4, 2>>
        /\ occurred[w] = <<Move(<<75, 150>>), Move(<<-30, 250>>)>>
        /\ got[w] = <<CursorMovement(<<75, 4>>, <<75, 1>>), CursorMovement(<<-15, 2>>, <<125, 1>>)>>

\* C23: the translation is the same on all three backends: the events
\* poll_event has returned for an open window are the first of the events that
\* the window's notifications translate to on each of the backends, a press
\* giving MouseClick(button) and a release MouseRelease(button).
C23_SameOnEveryBackend ==
    \A w \in Windows :
        is_open(w) /\ size_xy[w][1] > 0 /\ size_xy[w][2] > 0
        => \A b \in Backends : IsPrefix(got[w], TranslateAll(b, occurred[w], size_xy[w]))

\* The i-th cause of e (e itself for 0), <<>> when the chain is shorter.
RECURSIVE NthCause(_, _)
NthCause(e, i) ==
    IF i = 0 THEN <<e>>
    ELSE LET c == NthCause(e, i - 1) IN IF c = <<>> THEN <<>> ELSE Error_source(c[1])

\* C24: every SetupError a setup returns has a source, and ErrorChainPrinter
\* writes the error, then its cause, then that one's cause and so on, each
\* at its place in the chain and once, and nothing after the first error that
\* has no cause.
C24_ChainIsPrinted ==
    last.err.type = "SetupError" =>
        LET printed == ErrorChainPrinter(last.err) IN
        /\ Error_source(last.err) # <<>>
        /\ \A i \in 0..Len(printed) :
              LET c == NthCause(last.err, i) IN
              IF c = <<>> THEN Len(printed) <= i
              ELSE i + 1 <= Len(printed) /\ printed[i + 1] = Display(c[1])

\* A setup has returned a SetupError whose source has a cause of its own, and
\* the printer writes the three of them.
C24_Witness ==
    /\ last.op = "setup" /\ last.err.type = "SetupError"
    /\ NthCause(last.err, 2) # <<>> /\ NthCause(last.err, 3) = <<>>
    /\ Len(ErrorChainPrinter(last.err)) = 3

Reported(note) ==
    \/ note.kind = "move"
    \/ note.kind \in {"press", "release"} /\ note.button \in {"Left", "Middle", "Right"}

Min(S) == CHOOSE i \in S : \A j \in S : i <= j

\* C26: one X11 poll_event whose query works takes notifications from the
\* front of the buffer: those before the first reported kind are skipped, that
\* one is translated and returned, and what lies after it stays buffered in
\* its order; with no reported kind buffered the call empties the buffer and
\* returns None.  None is returned only with the buffer emptied, or when the
\* query failed.
C26_PollTakesFirstReported ==
    [][\A w \in Windows :
        /\ X11Poll(w, TRUE) =>
             LET buf == nbuf[w]
                 T == {i \in 1..Len(buf) : Reported(buf[i])} IN
             IF T = {}
             THEN last'.res = "None" /\ nbuf'[w] = <<>> /\ got'[w] = got[w]
             ELSE /\ last'.res = "Some" /\ Len(last'.ev) = 1
                  /\ last'.ev = X11Events(buf[Min(T)], size_xy[w])
                  /\ got'[w] = got[w] \o last'.ev
                  /\ nbuf'[w] = SubSeq(buf, Min(T) + 1, Len(buf))
        /\ X11Poll(w, FALSE) => last'.res = "None" /\ nbuf'[w] = nbuf[w]]_vars

\* An unreported notification and then a move have occurred, and one
\* poll_event has skipped the first and returned the event of the second.
C26_Witness ==
    \E w \in Windows :
        /\ backend = "X11" /\ is_open(w)
        /\ Len(occurred[w]) = 2
        /\ ~Reported(occurred[w][1]) /\ occurred[w][2] = Move(<<75, 150>>)
        /\ last.op = "poll_event" /\ last.w = w /\ last.res = "Some"
        /\ got[w] = X11Events(occurred[w][2], size_xy[w])
        /\ nbuf[w] = <<>>

\* C27: the X11 poll_event ends for every buffer: a live window can always be
\* polled, and a call asks the connection once per notification it consumes,
\* and once more when it returns None: never more than the number of buffered
\* notifications plus one.
C27_PollQueriesBounded ==
    /\ [](\A w \in Windows :
            backend = "X11" /\ Running /\ is_open(w)
            => ENABLED (\E queryOk \in BOOLEAN : X11Poll(w, queryOk)))
    /\ [][\A w \in Windows : \A queryOk \in BOOLEAN :
            X11Poll(w, queryOk) =>
                LET queries == X11PollResult(nbuf[w], size_xy[w], queryOk).queries
                    consumed == Len(nbuf[w]) - Len(nbuf'[w]) IN
                /\ queries <= Len(nbuf[w]) + 1
                /\ queries = consumed + IF last'.res = "None" THEN 1 ELSE 0]_vars

\* Two notifications the backend does not report were buffered, and a
\* poll_event has consumed both and returned None.
C27_Witness ==
    \E w \in Windows :
        /\ backend = "X11" /\ is_open(w)
        /\ Len(occurred[w]) = 2
        /\ \A i \in 1..2 : ~Reported(occurred[w][i])
        /\ last.op = "poll_event" /\ last.w = w /\ last.res = "None"
        /\ nbuf[w] = <<>> /\ got[w] = <<>>

\* The button a detail byte stands for: 1, 2, 3 are left, middle, right.
ButtonOfDetail(d) ==
    IF d = 1 THEN "Left" ELSE IF d = 2 THEN "Middle" ELSE IF d = 3 THEN "Right" ELSE None

\* The event of a button notification with the detail d.
ButtonEvents(kind, d) ==
    IF ButtonOfDetail(d) = None THEN <<>>
    ELSE IF kind = "press" THEN <<MouseClick(ButtonOfDetail(d))>>
    ELSE <<MouseRelease(ButtonOfDetail(d))>>

RECURSIVE AllButtonEvents(_)
AllButtonEvents(notes) ==
    IF notes = <<>> THEN <<>>
    ELSE ButtonEvents(Head(notes).kind, Detail(Head(notes).button))
             \o AllButtonEvents(Tail(notes))

\* C28: on X11 the detail 1 is the left button, 2 the middle, 3 the right and
\* every other value of the byte no button; for a window whose notifications
\* were button presses and releases, the events returned and still buffered
\* are MouseClick of the mapped button for a press and MouseRelease of it for a
\* release, in order, and nothing for an unmapped detail.
C28_DetailMapping ==
    /\ \A d \in 0..255 : convert_mouse_button_detail(d) = ButtonOfDetail(d)
    /\ \A w \in Windows :
          /\ backend = "X11" /\ is_open(w)
          /\ \A i \in 1..Len(occurred[w]) : occurred[w][i].kind \in {"press", "release"}
          => LET consumed == Len(occurred[w]) - Len(nbuf[w]) IN
             /\ IsPrefix(got[w], AllButtonEvents(SubSeq(occurred[w], 1, consumed)))
             /\ got[w] \o Buffered(w) = AllButtonEvents(occurred[w])

\* The middle button was pressed and released and poll_event has returned
\* the click and the release of Middle.
C28_Witness ==
    \E w \in Windows :
        /\ backend = "X11" /\ is_open(w)
        /\ occurred[w] = <<Press("Middle", <<0, 0>>), Release("Middle", <<0, 0>>)>>
        /\ got[w] = <<MouseClick("Middle"), MouseRelease("Middle")>>

\* The error notifications among what the server sent, in their order.
ErrorsOf(events) == SelectSeq(events, LAMBDA e : e.response = "Error")

\* C29: an X11 build that got as far as the synchronizing round trip (the
\* size fits, the connection and the replies were there) succeeds only if the
\* server sent no error; the first error it sent makes the build fail, with an
\* InvalidParent error exactly when that error's kind is Window and its
\* 16-bit sequence number is the create-window request's modulo 2^16, and with
\* another error otherwise.
C29_FirstErrorDecides ==
    [][\A w \in Windows :
        backend = "X11" /\ setups' = setups + 1 /\ last'.w = w
        => \A parent \in AnyParents \ {"stale"} : \A server \in X11Servers[parent] :
              /\ u16(size_xy'[w][1]) /\ u16(size_xy'[w][2])
              /\ server.connect = <<>> /\ server.reply = "Ok"
              /\ X11Build(w, parent, size_xy'[w], server)
              => LET errors == ErrorsOf(server.events) IN
                 IF errors = <<>>
                 THEN last'.res = "Ok" /\ phase'[w] = "built"
                 ELSE /\ last'.op = "setup" /\ last'.err.type = "SetupError"
                      /\ phase'[w] = "none" /\ ~native'[w]
                      /\ last'.err.source.kind = "InvalidParentError"
                           <=> /\ errors[1].error_kind = "Window"
                               /\ errors[1].sequence = server.create_window_seq % 65536]_vars

\* A build has failed on a server error that is not the parent's: the error
\* returned is not InvalidParent.
C29_Witness ==
    /\ backend = "X11" /\ last.op = "setup" /\ last.res = "Err:Request"
    /\ last.opened /\ last.err.source.kind = "message"
    /\ size_xy[last.w] = WINDOW_DIMENSIONS

\* C30: the X11 build validates the size first: called with a width or height
\* that does not fit 16 bits unsigned, with any parent and any display server,
\* it returns the InvalidSize error without having connected to the display
\* server, and no window, connection or buffer is made.
C30_SizeFirst ==
    [][\A w \in Windows :
        /\ backend = "X11" /\ setups' = setups + 1 /\ last'.w = w
        /\ \/ size_xy'[w][1] < 0 \/ size_xy'[w][1] > 65535
           \/ size_xy'[w][2] < 0 \/ size_xy'[w][2] > 65535
        => /\ last'.op = "setup" /\ last'.res = "Err:InvalidSize"
           /\ last'.err.source.kind = "InvalidSizeError"
           /\ ~last'.opened
           /\ UNCHANGED <<phase, native, conn, nbuf>>
           /\ \A parent \in AnyParents : \A server \in X11Servers[parent] :
                 X11Build(w, parent, size_xy'[w], server)]_vars

\* A build called with the width 70000 has returned the InvalidSize error
\* without a connection.
C30_Witness ==
    /\ backend = "X11" /\ last.op = "setup" /\ last.res = "Err:InvalidSize"
    /\ ~last.opened /\ size_xy[last.w] = <<70000, 200>>
    /\ conn[last.w] = 0 /\ ~native[last.w]

\* C31: on Win32 a message that reaches wnd_proc while the window's user data
\* is null (the window is built and its event source not yet made, or the
\* event source's drop has cleared it and DestroyWindow sends the window its
\* last messages) sends no event: the call hands the message to DefWindowProcW
\* once and leaves the channel, the capture and the sender as they were.
C31_NullUserDataIgnores ==
    [][\A w \in Windows :
        backend = "Win32" /\ backref[w] = "null" /\ last'.w = w
        => /\ last'.op = "wnd_proc"
              => /\ last'.res = "ignored" /\ last'.forwarded = 1
                 /\ UNCHANGED <<queue, wndproc, capture, sender, receiver, occurred, got,
                                backref, fault>>
           /\ last'.op = "drop" /\ last'.res = "DestroyWindow"
              => UNCHANGED <<queue, wndproc, sender, receiver, got, fault>>]_vars

\* A message has reached the wnd_proc of a window that is built and has no
\* event source yet, and was ignored.
C31_Witness ==
    \E w \in Windows :
        /\ backend = "Win32" /\ phase[w] = "built" /\ native[w] /\ backref[w] = "null"
        /\ last.op = "wnd_proc" /\ last.w = w /\ last.res = "ignored" /\ last.forwarded = 1

\* A message wnd_proc has an arm for: a mouse move, or the left, right or
\* middle button going down or up.
MouseMessage(note) ==
    \/ note.kind = "move"
    \/ note.kind \in {"press", "release"} /\ note.button \in {"Left", "Right", "Middle"}

\* C32: on Win32 every wnd_proc invocation that returns has handed its message
\* to DefWindowProcW exactly once (none before the match, one by the time it
\* returns), whether the message sent an event or not; a message that is no
\* mouse move and no left, right or middle button transition sends nothing and
\* leaves the capture alone, and one that is sends exactly one event.
C32_ForwardedOnce ==
    [][\A w \in Windows :
        backend = "Win32" /\ last'.op = "wnd_proc" /\ last'.w = w /\ fault' = None
        => /\ last'.res \in {"enter", "ignored", "return"}
           /\ last'.res = "enter" => last'.forwarded = 0 /\ queue'[w] = queue[w]
           /\ last'.res = "ignored" => last'.forwarded = 1 /\ queue'[w] = queue[w]
           /\ last'.res = "return"
              => /\ last'.forwarded = 1 /\ wndproc'[w] = <<>>
                 /\ IF MouseMessage(wndproc[w][1])
                    THEN Len(queue'[w]) = Len(queue[w]) + 1
                    ELSE queue'[w] = queue[w] /\ capture' = capture]_vars

\* A mouse move and then a message wnd_proc has no arm for have gone through
\* wnd_proc: one event is buffered, and the last call returned through
\* DefWindowProcW.
C32_Witness ==
    \E w \in Windows :
        /\ backend = "Win32" /\ is_open(w) /\ wndproc[w] = <<>>
        /\ Len(occurred[w]) = 2
        /\ occurred[w][1].kind = "move" /\ ~MouseMessage(occurred[w][2])
        /\ Len(queue[w]) = 1 /\ got[w] = <<>>
        /\ last.op = "wnd_proc" /\ last.w = w /\ last.res = "return" /\ last.forwarded = 1

\* C33: on Win32 the drop of the event source first swaps the window's user
\* data for null and frees the boxed sender afterwards, in the very next step
\* and only when the swap gave back a pointer (the window still existed and
\* its user data was set); nothing else frees the sender, no sender is freed
\* twice, and a slot without a window has null user data.
C33_ClearThenFree ==
    /\ [](backend = "Win32" =>
            /\ fault # "drop: double free"
            /\ \A w \in Windows : phase[w] = "none" => backref[w] = "null")
    /\ [][\A w \in Windows :
            backend = "Win32" /\ last'.w = w
            => /\ last'.op = "drop" /\ last'.res = "clear_userdata"
                  => /\ backref'[w] = "null" /\ sender'[w] = sender[w]
                     /\ (todo'[w] # <<>> /\ Head(todo'[w]) = "free_sender")
                            <=> (native[w] /\ backref[w] = "ptr")
               /\ last'.op = "drop" /\ last'.res = "free_sender"
                  => /\ last.op = "drop" /\ last.res = "clear_userdata" /\ last.w = w
                     /\ backref[w] = "null"
                     /\ sender[w] = "alive" /\ sender'[w] = "freed"
                     /\ (todo'[w] = <<>> \/ Head(todo'[w]) # "free_sender")
               /\ sender[w] = "alive" /\ sender'[w] = "freed"
                  => last'.op = "drop" /\ last'.res = "free_sender"]_vars

\* A window that has returned an event has been torn down: its user data was
\* cleared, its sender freed, and the slot is empty.
C33_Witness ==
    \E w \in Windows :
        /\ backend = "Win32" /\ phase[w] = "none" /\ got[w] # <<>>
        /\ last.op = "drop" /\ last.w = w
        /\ sender[w] = "freed" /\ backref[w] = "null" /\ fault = None

\* The button a press or release callback of AppKit is for.
ButtonOfSelector(sel) ==
    CASE sel \in {"mouseDown:", "mouseUp:"} -> "Left"
      [] sel \in {"rightMouseDown:", "rightMouseUp:"} -> "Right"
      [] OTHER -> "Middle"

\* C34: on AppKit a button press or release callback of an open window sends
\* two events, first the CursorMovement of the notification's location and
\* then the MouseClick (press) or MouseRelease (release) of the callback's
\* button; a move or drag callback sends exactly one CursorMovement; the
\* events go to the back of the channel in that order.
C34_MovementThenButton ==
    [][\A w \in Windows :
        /\ backend = "AppKit" /\ last'.op = "callback" /\ last'.w = w
        /\ is_open(w) /\ receiver[w] /\ fault' = None
        /\ size_xy[w][1] > 0 /\ size_xy[w][2] > 0
        => LET note == occurred'[w][Len(occurred'[w])]
               new == SubSeq(queue'[w], Len(queue[w]) + 1, Len(queue'[w]))
               movement == PointerEvent(note.pos, size_xy[w]) IN
           /\ IsPrefix(queue[w], queue'[w])
           /\ note.kind \in {"move", "drag"} => new = <<movement>>
           /\ note.kind = "press"
                 => /\ Len(new) = 2 /\ new[1] = movement /\ new[2][1] = "MouseClick"
                    /\ note.button \in {"Left", "Right", "Middle"}
                         => new[2] = MouseClick(note.button)
                    /\ new[2] = MouseClick(ButtonOfSelector(last'.res))
           /\ note.kind = "release"
                 => /\ Len(new) = 2 /\ new[1] = movement /\ new[2][1] = "MouseRelease"
                    /\ note.button \in {"Left", "Right", "Middle"}
                         => new[2] = MouseRelease(note.button)
                    /\ new[2] = MouseRelease(ButtonOfSelector(last'.res))]_vars

\* A drag and then a press of the right button have reached an open window:
\* the channel holds the drag's movement, the press's movement and the click.
C34_Witness ==
    \E w \in Windows :
        /\ backend = "AppKit" /\ is_open(w) /\ size_xy[w] = WINDOW_DIMENSIONS
        /\ occurred[w] = <<Drag(<<75, 150>>), Press("Right", <<0, 0>>)>>
        /\ queue[w] = <<CursorMovement(<<1, 4>>, <<3, 4>>), CursorMovement(<<0, 1>>, <<0, 1>>),
                        MouseClick("Right")>>

\* What a window has of events and notifications: its channel, the buffer of
\* its connection, what it was sent and what its poll_event returned.
EventState(w) == <<queue[w], nbuf[w], wndproc[w], occurred[w], got[w]>>

EventStateNext(w) == <<queue'[w], nbuf'[w], wndproc'[w], occurred'[w], got'[w]>>

\* C35: with two windows open, a notification of window A or a poll_event of
\* window A leaves what window B has buffered, was sent and was returned as it
\* is, in any interleaving; and the event a poll_event of A returns is the
\* next of the events A's own notifications translate to under A's own size.
C35_EventsPerWindow ==
    [][\A A \in Windows, B \in Windows :
        /\ A # B /\ is_open(A) /\ is_open(B)
        /\ last'.w = A /\ last'.op \in {"wnd_proc", "callback", "notify", "poll_event"}
        => /\ EventStateNext(B) = EventState(B)
           /\ size_xy'[A] = size_xy[A] /\ size_xy'[B] = size_xy[B]
           /\ last'.op = "poll_event" /\ last'.ev # <<>>
                 => /\ Len(got[A]) < Len(TranslateAll(backend, occurred[A], size_xy[A]))
                    /\ last'.ev = <<TranslateAll(backend, occurred[A], size_xy[A])
                                       [Len(got[A]) + 1]>>
                    /\ got'[A] = got[A] \o last'.ev]_vars

\* Two windows of different sizes are open, the pointer has moved to the same
\* offset in both, and each window's poll_event has returned the movement
\* under its own size: two different events.
C35_Witness ==
    /\ is_open(1) /\ is_open(2) /\ size_xy[1] # size_xy[2]
    /\ occurred[1] = <<Move(<<75, 150>>)>> /\ occurred[2] = <<Move(<<75, 150>>)>>
    /\ got[1] = TranslateAll(backend, occurred[1], size_xy[1])
    /\ got[2] = TranslateAll(backend, occurred[2], size_xy[2])
    /\ got[1] # got[2] /\ Len(got[1]) = 1
    /\ last.op = "poll_event"

\* What MyPluginEditor::open returns for a recorded call: false with a window
\* there, true in the Ok arm of its match on setup, false in the Err arm.
OpenReturns(call) == call.op = "setup" /\ call.res = "Ok"

\* C36: in the example editor, step by step for every editor: is_open turns
\* true only by an open whose setup succeeded and false only by a close, and
\* each of the two does turn it, so is_open is true exactly from a successful
\* open to the next close; every part of setup runs with no window in the
\* editor; open with a window returns false, calls no setup and leaves the
\* window in place; a setup that fails returns false from open and leaves the
\* editor closed; poll_event is called only with a window.
C36_EditorLifecycle ==
    [][\A w \in Windows :
        /\ (~is_open(w) /\ is_open(w)') => last' = Call("setup", w, "Ok")
        /\ (is_open(w) /\ ~is_open(w)') => last' = Call("close", w, "drop")
        /\ last'.w = w =>
              /\ last' = Call("setup", w, "Ok") => ~is_open(w) /\ is_open(w)'
              /\ last'.op = "close" => ~is_open(w)'
              /\ last'.op \in {"build", "setup"} => ~is_open(w)
              /\ setups' # setups => phase[w] = "none" /\ setups' = setups + 1
              /\ last'.op = "open"
                    => /\ is_open(w) /\ is_open(w)' /\ ~OpenReturns(last')
                       /\ setups' = setups /\ native' = native /\ size_xy' = size_xy
              /\ (last'.op = "setup" /\ last'.err # NoError)
                    => ~OpenReturns(last') /\ ~is_open(w)' /\ phase'[w] \in {"unwinding", "none"}
              /\ last'.op = "poll_event" => is_open(w) /\ is_open(w)'
              /\ last'.op = "idle" => ~is_open(w) /\ got' = got /\ queue' = queue /\ nbuf' = nbuf
        /\ (phase[w] = "unwinding" /\ phase'[w] # "unwinding") => phase'[w] = "none"]_vars

\* Both editors have called setup once; the first has its window and has just
\* answered a further open with false, the second is closed.
C36_Witness ==
    /\ last = Call("open", 1, "false")
    /\ is_open(1) /\ setups = 2
    /\ ~is_open(2) /\ phase[2] = "none" /\ ~native[2]

====
